---------------------------- MODULE Spec2Model ----------------------------
(***************************************************************************)
(* Model of the trade-simulation engine run_r_backtest                     *)
(* (src/Core/backtester.py).  One call of run_r_backtest is one behaviour: *)
(* the configuration is chosen in Init, the column check is the first      *)
(* step, every row of the series is one step of the multi-position or of   *)
(* the single-position loop, and the return is the last step.              *)
(*                                                                         *)
(* Prices are integers (ticks).  A row is the tuple itertuples() yields:   *)
(* Index (the timestamp, here the row number, so timestamps are unique and *)
(* strictly increasing), signal, entry_price, sl_price and the high / low  *)
(* of the execution timeframe.                                             *)
(*                                                                         *)
(* Spec is that call with its history; SpecFair adds the fairness under    *)
(* which it ends; SpecModes runs both modes on one series and SpecSolo a   *)
(* multi-position run beside the run of one of its signals alone.          *)
(*                                                                         *)
(* The code around the engine is modelled beside it, each part under a     *)
(* specification of its own: get_performance_stats (src/Core/analysis.py,  *)
(* SpecAnalysis), StrategyPR.generate_conditions                           *)
(* (src/Strategies/strategy_PR.py, SpecPR), the filter-combination loop of *)
(* _run_backtest_scenarios (src/Core/main.py, SpecScenarios) and the       *)
(* download and healing stages of run_full_update (src/Core/updater.py,    *)
(* SpecUpdater).                                                           *)
(***************************************************************************)
EXTENDS Integers, Sequences, FiniteSets

\* ------------------------------------------------------------- bounds --
\* Longest series explored (number of rows).
MaxRows == 3

\* Longest trade table handed to get_performance_stats.
MaxTrades == 3

\* Longest series of strategy-timeframe candles handed to StrategyPR.
MaxCandles == 3

\* Most raw asset folders found in the Data directory.
MaxAssets == 3

\* ---------------------------------------------------------- constants --
\* The missing value (numpy.nan / None) that pd.isna recognises.  It is no
\* price level; only entry_price and sl_price of a row can hold it.
NaN == -1

VARIABLES
    pc,                     \* "start", "loop", "done" (returned), "raised"
    result,                 \* what the caller gets: the ledger, once returned
    has_exec_cols,          \* df has high_<tf> and low_<tf> columns
    risk_reward_ratio,
    use_breakeven,
    breakeven_trigger_r,
    allow_multiple_trades,
    n,                      \* rows consumed so far
    active_trades,          \* multi-position path: list of open trades
    in_position,            \* single-position path
    position_details,       \* single-position path
    trades_log,             \* the ledger
    \* -- history of the run, read by the properties only --
    last,                   \* the row of the last step: Index, kind, and the
                            \*   bar the open trades were checked against
    zero_risk,              \* Index of the rows with a zero-risk signal
    started,                \* the open trades as the last step found them
    checked,                \* the same trades as they stood at their exit check
    kept,                   \* the trades still open after the exit processing
    admitted,               \* Index of the rows that opened a position
    blocked,                \* Index of the signals that met an occupied slot
    signals,                \* the rows (Index, signal, entry_price, sl_price)
                            \*   of the signals whose positions the last step
                            \*   found open or opened
    \* -- get_performance_stats --
    trades_df,              \* the trade table passed in
    stats,                  \* the tuple returned; << >> before the call
    \* -- StrategyPR.generate_conditions --
    candles,                \* the strategy-timeframe candles of the data
    rows_per_candle,        \* base-timeframe rows per candle
    final_df,               \* the frame returned; << >> before the call
    \* -- runs of the engine beside the run at hand, on the same rows --
    twin,                   \* the multi-position run beside a single-position
                            \*   run: active_trades, trades_log, result, and
                            \*   overlap (a valid signal met an open position)
    solo,                   \* the run in which every signal but the one of
                            \*   the position at entry_time is 0:
                            \*   entry_time, active_trades, trades_log,
                            \*   result
    \* -- _run_backtest_scenarios (src/Core/main.py) --
    copy_on_write,          \* pandas runs with Copy-on-Write (3.x, or the
                            \*   2.x option) or without (2.x default)
    selected_filters,       \* the filters ticked by the user, in order
    conditions_df,          \* the strategy's condition columns, at one row
    given_df,               \* conditions_df as generate_conditions returned it
    is_new_signal_candle,   \* the row starts a strategy candle
    combos_done,            \* filter combinations processed so far
    final_masks,            \* final_mask of each processed combination
    \* -- run_full_update (src/Core/updater.py) --
    stage,                  \* "discover", "download", "heal", "resample",
                            \*   "done"
    discovered,             \* the folders get_raw_asset_folders returned
    asset_folders,          \* the list the stages iterate (and shrink)
    it,                     \* position of the running for-loop's iterator
    downloads,              \* folders handed to run_download, with outcome
    healings,               \* folders handed to run_healing, in order
    healed_files_to_process,
    resamplings             \* healed files handed to run_resampling

vars == << pc, result, has_exec_cols, risk_reward_ratio, use_breakeven,
           breakeven_trigger_r, allow_multiple_trades, n, active_trades,
           in_position, position_details, trades_log,
           last, zero_risk, started, checked, kept, admitted, blocked,
           signals, trades_df, stats, candles, rows_per_candle, final_df,
           twin, solo,
           copy_on_write, selected_filters, conditions_df, given_df,
           is_new_signal_candle, combos_done, final_masks,
           stage, discovered, asset_folders, it, downloads, healings,
           healed_files_to_process, resamplings >>

\* The state of _run_backtest_scenarios and of run_full_update.
scenarios == << copy_on_write, selected_filters, conditions_df, given_df,
               is_new_signal_candle, combos_done, final_masks >>

updater == << stage, discovered, asset_folders, it, downloads, healings,
             healed_files_to_process, resamplings >>

\* The state of the collaborators, which run_r_backtest never touches.
others == << trades_df, stats, candles, rows_per_candle, final_df,
            twin, solo, scenarios, updater >>

\* ------------------------------------------------------------- inputs --
\* The levels (ticks) of the model.  A signal enters at the middle level and
\* its stop lies one tick below it, on it (zero risk) or one tick above it, so
\* the risk of a valid signal is one tick; a bar's high and low reach two
\* ticks either side of the entry, far enough for a target at 2R.
EntryPrices == {2}

StopPrices == {1, 2, 3}

BarLevels == {0, 1, 2, 3, 4}

\* The target lies beyond the breakeven trigger.
RewardRatios == {2}

TriggerRs == {1}

\* << high, low >> of a candle: low <= high.
Bars == { b \in BarLevels \X BarLevels : b[2] <= b[1] }

\* << signal, entry_price, sl_price >> of a row.  A row without a signal has
\* no entry / stop price (main.py fills them with nan); a row with a signal
\* can miss the stop, the entry or both (the stop that comes with a missing
\* entry is never read past pd.isna, one level stands for all).
Quotes ==
    { << 0, NaN, NaN >> }
        \cup ({-1, 1} \X EntryPrices \X (StopPrices \cup {NaN}))
        \cup ({-1, 1} \X {NaN} \X {1, NaN})

\* The row itertuples() yields at position i (Index = i: timestamps are
\* unique and increasing).
Row(i, q, b) ==
    [Index |-> i, signal |-> q[1], entry_price |-> q[2], sl_price |-> q[3],
     high |-> b[1], low |-> b[2]]

\* What a row asks for, read off the row alone.
SignalKind(r) ==
    IF r.signal = 0 THEN "none"
    ELSE IF r.entry_price = NaN \/ r.sl_price = NaN THEN "missing"
    ELSE IF r.entry_price = r.sl_price THEN "zero_risk"
    ELSE "valid"

\* What the history keeps of a row.  The bar is kept when open trades were
\* checked against it (any is true); no line reads it otherwise.
Seen(r, any) ==
    [Index |-> r.Index, kind |-> SignalKind(r),
     high |-> IF any THEN r.high ELSE NaN,
     low |-> IF any THEN r.low ELSE NaN]

NoRow == [Index |-> 0, kind |-> "none", high |-> NaN, low |-> NaN]

\* The value of result before the call has returned.
NoResult == << "None" >>

\* _run_backtest_scenarios and run_full_update have not been called.
NoConditions == [base_pattern_cond |-> FALSE, has_session_cond |-> FALSE,
                 session_cond |-> TRUE, filter_Volume |-> TRUE,
                 filter_Body |-> TRUE]

ScenariosIdle ==
    /\ copy_on_write = FALSE
    /\ selected_filters = << >>
    /\ conditions_df = NoConditions
    /\ given_df = NoConditions
    /\ is_new_signal_candle = FALSE
    /\ combos_done = 0
    /\ final_masks = << >>

UpdaterIdle ==
    /\ stage = "discover"
    /\ discovered = << >>
    /\ asset_folders = << >>
    /\ it = 0
    /\ downloads = << >>
    /\ healings = << >>
    /\ healed_files_to_process = << >>
    /\ resamplings = << >>

\* No run beside the run at hand.
NoTwin == [active_trades |-> << >>, trades_log |-> << >>,
           result |-> NoResult, overlap |-> FALSE]

NoSolo == [entry_time |-> 0, active_trades |-> << >>, trades_log |-> << >>,
           result |-> NoResult]

\* ------------------------------------------------------------ helpers --
isna(x) == x = NaN

abs(x) == IF x < 0 THEN -x ELSE x

\* The value position_details holds before the first admission ({} in the
\* code: no key is read while in_position is false).
NoTrade == [entry |-> NaN, sl |-> NaN, tp |-> NaN, be_price |-> NaN,
            direction |-> "NONE", entry_time |-> 0, be_triggered |-> FALSE]

NoExit == [exit_reason |-> "None", r_multiple |-> 0, exit_price |-> NaN]

\* ------------------------------------------- multi-position code path --
\* Variant of BreakevenMulti: the stop is moved to the trigger price.
MutBreakevenMultiStopToTrigger(trade, r) ==
    IF use_breakeven /\ ~trade.be_triggered
    THEN IF \/ (trade.direction = "LONG" /\ r.high >= trade.be_price)
            \/ (trade.direction = "SHORT" /\ r.low <= trade.be_price)
         THEN [trade EXCEPT !.sl = trade.be_price, !.be_triggered = TRUE]
         ELSE trade
    ELSE trade

\* Breakeven check of one trade of the list (the dict is mutated in place).
BreakevenMulti(trade, r) ==
    IF use_breakeven /\ ~trade.be_triggered
    THEN IF \/ (trade.direction = "LONG" /\ r.high >= trade.be_price)
            \/ (trade.direction = "SHORT" /\ r.low <= trade.be_price)
         THEN [trade EXCEPT !.sl = trade.entry, !.be_triggered = TRUE]
         ELSE trade
    ELSE trade

\* Variant of ExitMulti: a stop-loss that has not armed is booked as a loss
\* of risk_reward_ratio R instead of 1R.
MutExitMultiLossScaled(trade, r) ==
    IF trade.direction = "LONG" /\ r.low <= trade.sl
    THEN [exit_reason |-> "Stop Loss", exit_price |-> trade.sl,
          r_multiple |-> IF trade.be_triggered THEN 0
                         ELSE -risk_reward_ratio]
    ELSE IF trade.direction = "SHORT" /\ r.high >= trade.sl
    THEN [exit_reason |-> "Stop Loss", exit_price |-> trade.sl,
          r_multiple |-> IF trade.be_triggered THEN 0
                         ELSE -risk_reward_ratio]
    ELSE IF trade.direction = "LONG" /\ r.high >= trade.tp
    THEN [exit_reason |-> "Take Profit", exit_price |-> trade.tp,
          r_multiple |-> risk_reward_ratio]
    ELSE IF trade.direction = "SHORT" /\ r.low <= trade.tp
    THEN [exit_reason |-> "Take Profit", exit_price |-> trade.tp,
          r_multiple |-> risk_reward_ratio]
    ELSE NoExit

\* Variant of ExitMulti: a stop-loss exit counts -1 whether armed or not.
MutExitMultiAlwaysLoss(trade, r) ==
    IF trade.direction = "LONG" /\ r.low <= trade.sl
    THEN [exit_reason |-> "Stop Loss", exit_price |-> trade.sl,
          r_multiple |-> -1]
    ELSE IF trade.direction = "SHORT" /\ r.high >= trade.sl
    THEN [exit_reason |-> "Stop Loss", exit_price |-> trade.sl,
          r_multiple |-> -1]
    ELSE IF trade.direction = "LONG" /\ r.high >= trade.tp
    THEN [exit_reason |-> "Take Profit", exit_price |-> trade.tp,
          r_multiple |-> risk_reward_ratio]
    ELSE IF trade.direction = "SHORT" /\ r.low <= trade.tp
    THEN [exit_reason |-> "Take Profit", exit_price |-> trade.tp,
          r_multiple |-> risk_reward_ratio]
    ELSE NoExit

\* Exit check of one trade: the if / elif chain, stop-loss branches first.
ExitMulti(trade, r) ==
    IF trade.direction = "LONG" /\ r.low <= trade.sl
    THEN [exit_reason |-> "Stop Loss", exit_price |-> trade.sl,
          r_multiple |-> IF trade.be_triggered THEN 0 ELSE -1]
    ELSE IF trade.direction = "SHORT" /\ r.high >= trade.sl
    THEN [exit_reason |-> "Stop Loss", exit_price |-> trade.sl,
          r_multiple |-> IF trade.be_triggered THEN 0 ELSE -1]
    ELSE IF trade.direction = "LONG" /\ r.high >= trade.tp
    THEN [exit_reason |-> "Take Profit", exit_price |-> trade.tp,
          r_multiple |-> risk_reward_ratio]
    ELSE IF trade.direction = "SHORT" /\ r.low <= trade.tp
    THEN [exit_reason |-> "Take Profit", exit_price |-> trade.tp,
          r_multiple |-> risk_reward_ratio]
    ELSE NoExit

\* Variant of RecordMulti: the record is stamped with the row of the exit.
MutRecordMultiStampsExitRow(trade, r, ex) ==
    [EntryTime |-> r.Index, EntryPrice |-> trade.entry,
     Direction |-> trade.direction, ExitTime |-> r.Index,
     ExitPrice |-> ex.exit_price, ExitReason |-> ex.exit_reason,
     RMultiple |-> ex.r_multiple]

\* The dict appended to trades_log.
RecordMulti(trade, r, ex) ==
    [EntryTime |-> trade.entry_time, EntryPrice |-> trade.entry,
     Direction |-> trade.direction, ExitTime |-> r.Index,
     ExitPrice |-> ex.exit_price, ExitReason |-> ex.exit_reason,
     RMultiple |-> ex.r_multiple]

\* Variant of FirstEqual: the trade to remove is looked up by its stop level.
MutFirstEqualByStop(list, x) ==
    IF \E p \in 1..Len(list) : list[p].sl = x.sl
    THEN CHOOSE p \in 1..Len(list) :
            list[p].sl = x.sl /\ \A q \in 1..(p - 1) : list[q].sl /= x.sl
    ELSE 0

\* list.remove(x): drops the first element equal to x; ValueError if none.
FirstEqual(list, x) ==
    IF \E p \in 1..Len(list) : list[p] = x
    THEN CHOOSE p \in 1..Len(list) :
            list[p] = x /\ \A q \in 1..(p - 1) : list[q] /= x
    ELSE 0

\* Variant of DropAt: the last element goes (list.pop()).
MutDropAtPopsLast(list, p) == SubSeq(list, 1, Len(list) - 1)

DropAt(list, p) == SubSeq(list, 1, p - 1) \o SubSeq(list, p + 1, Len(list))

\* Variant of ManageTrades: the loop runs over copies of the dicts, so the
\* breakeven mutation does not show in active_trades.
RECURSIVE MutManageTradesCopied(_, _, _, _)
MutManageTradesCopied(snapshot, k, lp, r) ==
    IF k > Len(snapshot) \/ lp.error THEN lp
    ELSE
      LET trade == BreakevenMulti(snapshot[k], r)
          act1  == lp.act
          ex    == ExitMulti(trade, r)
          chk1  == Append(lp.chk, trade)
      IN IF ex.exit_reason = "None"
         THEN MutManageTradesCopied(snapshot, k + 1,
                  [lp EXCEPT !.act = act1, !.chk = chk1], r)
         ELSE LET p == FirstEqual(act1, trade)
              IN IF p = 0
                 THEN [lp EXCEPT !.act = act1, !.chk = chk1, !.error = TRUE,
                          !.log = Append(lp.log, RecordMulti(trade, r, ex))]
                 ELSE MutManageTradesCopied(snapshot, k + 1,
                          [act |-> DropAt(act1, p), ids |-> DropAt(lp.ids, p),
                           log |-> Append(lp.log, RecordMulti(trade, r, ex)),
                           chk |-> chk1, error |-> FALSE], r)

\* The loop `for trade in list(active_trades)`.  snapshot is the copy that is
\* iterated; lp.act is active_trades and lp.ids names, for each element of
\* active_trades, the snapshot object it is (the dicts are shared, so the
\* breakeven mutation of snapshot object k shows in active_trades).
RECURSIVE ManageTrades(_, _, _, _)
ManageTrades(snapshot, k, lp, r) ==
    IF k > Len(snapshot) \/ lp.error THEN lp
    ELSE
      LET trade == BreakevenMulti(snapshot[k], r)
          act1  == [p \in 1..Len(lp.act) |->
                        IF lp.ids[p] = k THEN trade ELSE lp.act[p]]
          ex    == ExitMulti(trade, r)
          chk1  == Append(lp.chk, trade)
      IN IF ex.exit_reason = "None"
         THEN ManageTrades(snapshot, k + 1,
                  [lp EXCEPT !.act = act1, !.chk = chk1], r)
         ELSE LET p == FirstEqual(act1, trade)
              IN IF p = 0
                 THEN [lp EXCEPT !.act = act1, !.chk = chk1, !.error = TRUE,
                          !.log = Append(lp.log, RecordMulti(trade, r, ex))]
                 ELSE ManageTrades(snapshot, k + 1,
                          [act |-> DropAt(act1, p), ids |-> DropAt(lp.ids, p),
                           log |-> Append(lp.log, RecordMulti(trade, r, ex)),
                           chk |-> chk1, error |-> FALSE], r)

\* Variant of SkipMulti: the zero-risk test is left out.
MutSkipMultiNoZeroRisk(r) == isna(r.entry_price) \/ isna(r.sl_price)

\* Line 47: the signal is skipped (`continue`).
SkipMulti(r) ==
    isna(r.entry_price) \/ isna(r.sl_price)
        \/ abs(r.entry_price - r.sl_price) = 0

\* Variant of NewTradeMulti: the risk keeps the sign of entry - stop.
MutNewTradeMultiSignedRisk(r) ==
    LET risk      == r.entry_price - r.sl_price
        direction == IF r.signal = 1 THEN "LONG" ELSE "SHORT"
    IN [entry |-> r.entry_price, sl |-> r.sl_price,
        tp |-> IF direction = "LONG"
               THEN r.entry_price + (risk * risk_reward_ratio)
               ELSE r.entry_price - (risk * risk_reward_ratio),
        be_price |-> IF direction = "LONG"
                     THEN r.entry_price + (risk * breakeven_trigger_r)
                     ELSE r.entry_price - (risk * breakeven_trigger_r),
        direction |-> direction, entry_time |-> r.Index,
        be_triggered |-> FALSE]

\* Lines 48-52: the trade a valid signal opens.
NewTradeMulti(r) ==
    LET risk      == abs(r.entry_price - r.sl_price)
        direction == IF r.signal = 1 THEN "LONG" ELSE "SHORT"
    IN [entry |-> r.entry_price, sl |-> r.sl_price,
        tp |-> IF direction = "LONG"
               THEN r.entry_price + (risk * risk_reward_ratio)
               ELSE r.entry_price - (risk * risk_reward_ratio),
        be_price |-> IF direction = "LONG"
                     THEN r.entry_price + (risk * breakeven_trigger_r)
                     ELSE r.entry_price - (risk * breakeven_trigger_r),
        direction |-> direction, entry_time |-> r.Index,
        be_triggered |-> FALSE]

\* Variant of AdmitsMulti: only signal = 1 is taken for a signal.
MutAdmitsMultiLongOnly(r) ==
    r.signal = 1
        /\ ~(isna(r.entry_price) \/ isna(r.sl_price)
                \/ abs(r.entry_price - r.sl_price) = 0)

\* Lines 45-52: whether the row opens a trade (multi-position path).
AdmitsMulti(r) == r.signal /= 0 /\ ~SkipMulti(r)

\* Variant of BreakevenSingle: the bar has to go beyond the trigger price.
MutBreakevenSingleBeyond(pos, r) ==
    IF use_breakeven /\ ~pos.be_triggered
    THEN IF \/ (pos.direction = "LONG" /\ r.high > pos.be_price)
            \/ (pos.direction = "SHORT" /\ r.low < pos.be_price)
         THEN [pos EXCEPT !.sl = pos.entry, !.be_triggered = TRUE]
         ELSE pos
    ELSE pos

\* ------------------------------------------ single-position code path --
\* Lines 61-64: breakeven check of position_details.
BreakevenSingle(pos, r) ==
    IF use_breakeven /\ ~pos.be_triggered
    THEN IF \/ (pos.direction = "LONG" /\ r.high >= pos.be_price)
            \/ (pos.direction = "SHORT" /\ r.low <= pos.be_price)
         THEN [pos EXCEPT !.sl = pos.entry, !.be_triggered = TRUE]
         ELSE pos
    ELSE pos

\* Variant of ExitSingle: the take-profit branches come first.
MutExitSingleTargetFirst(pos, r) ==
    IF pos.direction = "LONG" /\ r.high >= pos.tp
    THEN [exit_reason |-> "Take Profit", exit_price |-> pos.tp,
          r_multiple |-> risk_reward_ratio]
    ELSE IF pos.direction = "SHORT" /\ r.low <= pos.tp
    THEN [exit_reason |-> "Take Profit", exit_price |-> pos.tp,
          r_multiple |-> risk_reward_ratio]
    ELSE IF pos.direction = "LONG" /\ r.low <= pos.sl
    THEN [exit_reason |-> "Stop Loss", exit_price |-> pos.sl,
          r_multiple |-> IF pos.be_triggered THEN 0 ELSE -1]
    ELSE IF pos.direction = "SHORT" /\ r.high >= pos.sl
    THEN [exit_reason |-> "Stop Loss", exit_price |-> pos.sl,
          r_multiple |-> IF pos.be_triggered THEN 0 ELSE -1]
    ELSE NoExit

\* Variant of ExitSingle: a stop-loss is always booked as -1R.
MutExitSingleForgetsBreakeven(pos, r) ==
    IF pos.direction = "LONG" /\ r.low <= pos.sl
    THEN [exit_reason |-> "Stop Loss", exit_price |-> pos.sl,
          r_multiple |-> -1]
    ELSE IF pos.direction = "SHORT" /\ r.high >= pos.sl
    THEN [exit_reason |-> "Stop Loss", exit_price |-> pos.sl,
          r_multiple |-> -1]
    ELSE IF pos.direction = "LONG" /\ r.high >= pos.tp
    THEN [exit_reason |-> "Take Profit", exit_price |-> pos.tp,
          r_multiple |-> risk_reward_ratio]
    ELSE IF pos.direction = "SHORT" /\ r.low <= pos.tp
    THEN [exit_reason |-> "Take Profit", exit_price |-> pos.tp,
          r_multiple |-> risk_reward_ratio]
    ELSE NoExit

\* Lines 66-74: exit check of position_details.
ExitSingle(pos, r) ==
    IF pos.direction = "LONG" /\ r.low <= pos.sl
    THEN [exit_reason |-> "Stop Loss", exit_price |-> pos.sl,
          r_multiple |-> IF pos.be_triggered THEN 0 ELSE -1]
    ELSE IF pos.direction = "SHORT" /\ r.high >= pos.sl
    THEN [exit_reason |-> "Stop Loss", exit_price |-> pos.sl,
          r_multiple |-> IF pos.be_triggered THEN 0 ELSE -1]
    ELSE IF pos.direction = "LONG" /\ r.high >= pos.tp
    THEN [exit_reason |-> "Take Profit", exit_price |-> pos.tp,
          r_multiple |-> risk_reward_ratio]
    ELSE IF pos.direction = "SHORT" /\ r.low <= pos.tp
    THEN [exit_reason |-> "Take Profit", exit_price |-> pos.tp,
          r_multiple |-> risk_reward_ratio]
    ELSE NoExit

\* Line 77: the dict appended to trades_log.
RecordSingle(pos, r, ex) ==
    [EntryTime |-> pos.entry_time, EntryPrice |-> pos.entry,
     Direction |-> pos.direction, ExitTime |-> r.Index,
     ExitPrice |-> ex.exit_price, ExitReason |-> ex.exit_reason,
     RMultiple |-> ex.r_multiple]

\* Variant of SkipSingle: the zero-risk test is left out.
MutSkipSingleNoZeroRisk(r) == isna(r.entry_price) \/ isna(r.sl_price)

\* Line 82: the signal is skipped (`continue`).
SkipSingle(r) ==
    isna(r.entry_price) \/ isna(r.sl_price)
        \/ abs(r.entry_price - r.sl_price) = 0

\* Variant of NewPositionSingle: the position is stamped with the time of the
\* previous row (the candle that produced the signal).
MutNewPositionSinglePrevBar(r) ==
    LET risk      == abs(r.entry_price - r.sl_price)
        direction == IF r.signal = 1 THEN "LONG" ELSE "SHORT"
    IN [entry |-> r.entry_price, sl |-> r.sl_price,
        tp |-> IF direction = "LONG"
               THEN r.entry_price + (risk * risk_reward_ratio)
               ELSE r.entry_price - (risk * risk_reward_ratio),
        be_price |-> IF direction = "LONG"
                     THEN r.entry_price + (risk * breakeven_trigger_r)
                     ELSE r.entry_price - (risk * breakeven_trigger_r),
        direction |-> direction, entry_time |-> r.Index - 1,
        be_triggered |-> FALSE]

\* Lines 83-88: the position a valid signal opens.
NewPositionSingle(r) ==
    LET risk      == abs(r.entry_price - r.sl_price)
        direction == IF r.signal = 1 THEN "LONG" ELSE "SHORT"
    IN [entry |-> r.entry_price, sl |-> r.sl_price,
        tp |-> IF direction = "LONG"
               THEN r.entry_price + (risk * risk_reward_ratio)
               ELSE r.entry_price - (risk * risk_reward_ratio),
        be_price |-> IF direction = "LONG"
                     THEN r.entry_price + (risk * breakeven_trigger_r)
                     ELSE r.entry_price - (risk * breakeven_trigger_r),
        direction |-> direction, entry_time |-> r.Index,
        be_triggered |-> FALSE]

\* Variant of InPositionAfterExit: an exit does not free the slot.
MutInPositionAfterExitStale(inpos, ex) == inpos

\* Line 78: in_position after the exit check of a row.
InPositionAfterExit(inpos, ex) == inpos /\ ex.exit_reason = "None"

\* Variant of AdmitsSingle: the slot is not looked at.
MutAdmitsSingleIgnoresSlot(inpos, r) ==
    r.signal /= 0
        /\ ~(isna(r.entry_price) \/ isna(r.sl_price)
                \/ abs(r.entry_price - r.sl_price) = 0)

\* Variant of AdmitsSingle: a SHORT signal is taken also while a position is
\* open.
MutAdmitsSingleShortsStack(inpos, r) ==
    (~inpos \/ r.signal = -1) /\ r.signal /= 0
        /\ ~(isna(r.entry_price) \/ isna(r.sl_price)
                \/ abs(r.entry_price - r.sl_price) = 0)

\* Lines 80-82: whether the row opens a position, given in_position as the
\* exit processing of this row left it.
AdmitsSingle(inpos, r) == ~inpos /\ r.signal /= 0 /\ ~SkipSingle(r)

\* Variant of StepMulti: the trade a signal opens is appended before the open
\* trades are managed, so the entry row's bar is checked against it.
MutStepMultiAdmitFirst(act, log, r) ==
    LET admit == AdmitsMulti(r)
        all   == IF admit THEN Append(act, NewTradeMulti(r)) ELSE act
        lp    == ManageTrades(all, 1,
                     [act |-> all, ids |-> [p \in 1..Len(all) |-> p],
                      log |-> log, chk |-> << >>, error |-> FALSE], r)
    IN [active_trades |-> lp.act,
        trades_log |-> lp.log, error |-> lp.error,
        checked |-> lp.chk, kept |-> lp.act, admit |-> admit]

\* ------------------------------------------------- one row, as a step --
\* Lines 22-52: the body of the multi-position loop for row r.
StepMulti(act, log, r) ==
    LET lp == ManageTrades(act, 1,
                  [act |-> act, ids |-> [p \in 1..Len(act) |-> p],
                   log |-> log, chk |-> << >>, error |-> FALSE], r)
        admit == ~lp.error /\ AdmitsMulti(r)
    IN [active_trades |-> IF admit THEN Append(lp.act, NewTradeMulti(r))
                          ELSE lp.act,
        trades_log |-> lp.log, error |-> lp.error,
        checked |-> lp.chk, kept |-> lp.act, admit |-> admit]

\* Variant of StepSingle: the exit check comes before the breakeven check.
MutStepSingleExitFirst(inpos, details, log, r) ==
    LET ex    == IF inpos THEN ExitSingle(details, r) ELSE NoExit
        pos   == IF inpos THEN BreakevenSingle(details, r) ELSE details
        still == InPositionAfterExit(inpos, ex)
        admit == AdmitsSingle(still, r)
    IN [in_position |-> (still \/ admit),
        position_details |-> IF admit THEN NewPositionSingle(r) ELSE pos,
        trades_log |-> IF ex.exit_reason /= "None"
                       THEN Append(log, RecordSingle(pos, r, ex))
                       ELSE log,
        checked |-> IF inpos THEN << pos >> ELSE << >>,
        kept |-> IF still THEN << pos >> ELSE << >>,
        admit |-> admit]

\* Variant of StepSingle: the record of an exit is put at the head of the
\* ledger.
MutStepSinglePrepends(inpos, details, log, r) ==
    LET pos   == IF inpos THEN BreakevenSingle(details, r) ELSE details
        ex    == IF inpos THEN ExitSingle(pos, r) ELSE NoExit
        still == InPositionAfterExit(inpos, ex)
        admit == AdmitsSingle(still, r)
    IN [in_position |-> (still \/ admit),
        position_details |-> IF admit THEN NewPositionSingle(r) ELSE pos,
        trades_log |-> IF ex.exit_reason /= "None"
                       THEN << RecordSingle(pos, r, ex) >> \o log
                       ELSE log,
        checked |-> IF inpos THEN << pos >> ELSE << >>,
        kept |-> IF still THEN << pos >> ELSE << >>,
        admit |-> admit]

\* Lines 57-88: the body of the single-position loop for row r.
StepSingle(inpos, details, log, r) ==
    LET pos   == IF inpos THEN BreakevenSingle(details, r) ELSE details
        ex    == IF inpos THEN ExitSingle(pos, r) ELSE NoExit
        still == InPositionAfterExit(inpos, ex)
        admit == AdmitsSingle(still, r)
    IN [in_position |-> (still \/ admit),
        position_details |-> IF admit THEN NewPositionSingle(r) ELSE pos,
        trades_log |-> IF ex.exit_reason /= "None"
                       THEN Append(log, RecordSingle(pos, r, ex))
                       ELSE log,
        checked |-> IF inpos THEN << pos >> ELSE << >>,
        kept |-> IF still THEN << pos >> ELSE << >>,
        admit |-> admit]

\* The signals to remember after a step: those already remembered and the
\* one admitted on row r, as far as their positions are in open (the trades
\* the step found open and the one it opened).
StillOpen(open, sigs, admit, r) ==
    { sg \in sigs \cup (IF admit
                        THEN {[Index |-> r.Index, signal |-> r.signal,
                               entry_price |-> r.entry_price,
                               sl_price |-> r.sl_price]}
                        ELSE {}) :
        \E k \in 1..Len(open) : open[k].entry_time = sg.Index }

\* ------------------------------------------------------------ actions --
Init ==
    /\ pc = "start"
    /\ result = NoResult
    /\ has_exec_cols \in BOOLEAN
    /\ risk_reward_ratio \in RewardRatios
    /\ use_breakeven \in BOOLEAN
    /\ breakeven_trigger_r \in TriggerRs
    /\ allow_multiple_trades \in BOOLEAN
    /\ n = 0
    /\ active_trades = << >>
    /\ in_position = FALSE
    /\ position_details = NoTrade
    /\ trades_log = << >>
    /\ last = NoRow
    /\ zero_risk = {}
    /\ started = << >>
    /\ checked = << >>
    /\ kept = << >>
    /\ admitted = {}
    /\ blocked = {}
    /\ signals = {}
    /\ trades_df = << >>
    /\ stats = << >>
    /\ candles = << >>
    /\ rows_per_candle = 1
    /\ final_df = << >>
    /\ twin = NoTwin
    /\ solo = NoSolo
    /\ ScenariosIdle
    /\ UpdaterIdle

config == << has_exec_cols, risk_reward_ratio, use_breakeven,
             breakeven_trigger_r, allow_multiple_trades >>

history == << last, zero_risk, started, checked, kept, admitted, blocked,
             signals >>

\* Lines 14-16: a missing execution-timeframe column raises ValueError.
RaiseConfigError ==
    /\ pc = "start"
    /\ ~has_exec_cols
    /\ pc' = "raised"
    /\ UNCHANGED << config, result, n, active_trades, in_position,
                    position_details, trades_log, history, others >>

\* Variant of Begin: the loop is entered without looking at the columns.
MutBeginUnchecked ==
    /\ pc = "start"
    /\ pc' = "loop"
    /\ UNCHANGED << config, result, n, active_trades, in_position,
                    position_details, trades_log, history, others >>

\* Lines 14-21, 55-56: the columns are there; the loop is entered.
Begin ==
    /\ pc = "start"
    /\ has_exec_cols
    /\ pc' = "loop"
    /\ UNCHANGED << config, result, n, active_trades, in_position,
                    position_details, trades_log, history, others >>

\* Lines 22-52: one iteration of the multi-position loop.
ProcessRowMulti ==
    /\ pc = "loop"
    /\ allow_multiple_trades
    /\ n < MaxRows
    /\ \E q \in Quotes, b \in Bars :
        \E r \in {Row(n + 1, q, b)} :
        \E s \in {StepMulti(active_trades, trades_log, r)} :
           /\ active_trades' = s.active_trades
           /\ trades_log' = s.trades_log
           /\ pc' = IF s.error THEN "raised" ELSE "loop"
           /\ last' = Seen(r, Len(s.checked) > 0)
           /\ zero_risk' = IF SignalKind(r) = "zero_risk"
                           THEN zero_risk \cup {r.Index} ELSE zero_risk
           /\ started' = active_trades
           /\ checked' = s.checked
           /\ kept' = s.kept
           /\ admitted' = IF s.admit THEN admitted \cup {r.Index}
                          ELSE admitted
           /\ blocked' = blocked
           /\ signals' = StillOpen(active_trades \o s.active_trades,
                                   signals, s.admit, r)
    /\ n' = n + 1
    /\ UNCHANGED << config, result, in_position, position_details, others >>

\* Lines 57-88: one iteration of the single-position loop.
ProcessRowSingle ==
    /\ pc = "loop"
    /\ ~allow_multiple_trades
    /\ n < MaxRows
    /\ \E q \in Quotes, b \in Bars :
        \E r \in {Row(n + 1, q, b)} :
        \E s \in {StepSingle(in_position, position_details, trades_log, r)} :
           /\ in_position' = s.in_position
           /\ position_details' = s.position_details
           /\ trades_log' = s.trades_log
           /\ last' = Seen(r, Len(s.checked) > 0)
           /\ zero_risk' = IF SignalKind(r) = "zero_risk"
                           THEN zero_risk \cup {r.Index} ELSE zero_risk
           /\ started' = IF in_position THEN << position_details >>
                         ELSE << >>
           /\ checked' = s.checked
           /\ kept' = s.kept
           /\ admitted' = IF s.admit THEN admitted \cup {r.Index}
                          ELSE admitted
           /\ blocked' = IF Len(s.kept) > 0 /\ r.signal /= 0
                         THEN blocked \cup {r.Index} ELSE blocked
           /\ signals' = StillOpen(
                  (IF in_position THEN << position_details >> ELSE << >>)
                      \o (IF s.in_position THEN << s.position_details >>
                          ELSE << >>),
                  signals, s.admit, r)
    /\ pc' = "loop"
    /\ n' = n + 1
    /\ UNCHANGED << config, result, active_trades, others >>

\* Variant of Return: a run without trades hands back nothing.
MutReturnNothingWhenEmpty ==
    /\ pc = "loop"
    /\ pc' = "done"
    /\ result' = IF trades_log = << >> THEN NoResult ELSE trades_log
    /\ active_trades' = << >>
    /\ in_position' = FALSE
    /\ position_details' = NoTrade
    /\ trades_log' = << >>
    /\ last' = NoRow
    /\ zero_risk' = {}
    /\ started' = << >>
    /\ checked' = << >>
    /\ kept' = << >>
    /\ admitted' = {}
    /\ blocked' = {}
    /\ signals' = {}
    /\ UNCHANGED << config, n, others >>

\* Lines 90-91: the series is exhausted (it can have any length up to
\* MaxRows); the ledger is returned and the locals of the call are gone.
Return ==
    /\ pc = "loop"
    /\ pc' = "done"
    /\ result' = trades_log
    /\ active_trades' = << >>
    /\ in_position' = FALSE
    /\ position_details' = NoTrade
    /\ trades_log' = << >>
    /\ last' = NoRow
    /\ zero_risk' = {}
    /\ started' = << >>
    /\ checked' = << >>
    /\ kept' = << >>
    /\ admitted' = {}
    /\ blocked' = {}
    /\ signals' = {}
    /\ UNCHANGED << config, n, others >>

Next ==
    \/ RaiseConfigError
    \/ Begin
    \/ ProcessRowMulti
    \/ ProcessRowSingle
    \/ Return

Spec == Init /\ [][Next]_vars

\* ======================================================================
\* get_performance_stats (src/Core/analysis.py)
\* ======================================================================
\* The engine variables while a collaborator is run on its own.
engine_proper == << pc, result, config, n, active_trades, in_position,
                    position_details, trades_log, history >>

engine == << engine_proper, twin, solo, scenarios, updater >>

EngineIdle ==
    /\ pc = "start"
    /\ result = NoResult
    /\ has_exec_cols = TRUE
    /\ risk_reward_ratio = 1
    /\ use_breakeven = FALSE
    /\ breakeven_trigger_r = 1
    /\ allow_multiple_trades = FALSE
    /\ n = 0
    /\ active_trades = << >>
    /\ in_position = FALSE
    /\ position_details = NoTrade
    /\ trades_log = << >>
    /\ last = NoRow
    /\ zero_risk = {}
    /\ started = << >>
    /\ checked = << >>
    /\ kept = << >>
    /\ admitted = {}
    /\ blocked = {}
    /\ signals = {}
    /\ twin = NoTwin
    /\ solo = NoSolo

\* Entry times of the trade tables: days of 2023, counted from 1 January
\* (2 and 3: Monday 2 and Tuesday 3 January; 36 and 37: Sunday 5 and Monday
\* 6 February).
EntryDays == {2, 3, 36, 37}

\* R-Multiple values of the records (whole R).
RMultiples == {-1, 0, 2}

\* The rows a trade table is made of: 'Entry Time' and 'R-Multiple'.
TradeRows == [EntryTime : EntryDays, RMultiple : RMultiples]

\* period.strftime('%Y-%m') of resample('ME'): the month of the year.
MonthOf(d) == IF d <= 31 THEN 1 ELSE IF d <= 59 THEN 2 ELSE 3

days_order == << "Monday", "Tuesday", "Wednesday", "Thursday", "Friday",
                 "Saturday", "Sunday" >>

\* .dt.day_name(): 1 January 2023 was a Sunday.
day_name(d) == days_order[((d + 5) % 7) + 1]

\* Optional values: None and a value that is there.
None == << >>

Some(x) == << x >>

\* f"{x:.2f}" of the quotient num / den (num >= 0, den > 0): the number of
\* hundredths printed, the nearest to the quotient.
Format2(num, den) == ((2 * 100 * num) + den) \div (2 * den)

RECURSIVE SumR(_)
\* trades_df['R-Multiple'].sum()
SumR(df) == IF Len(df) = 0 THEN 0 ELSE df[1].RMultiple + SumR(Tail(df))

Winners(df) == SelectSeq(df, LAMBDA t : t.RMultiple > 0)

Losers(df) == SelectSeq(df, LAMBDA t : t.RMultiple < 0)

BreakEvens(df) == SelectSeq(df, LAMBDA t : t.RMultiple = 0)

\* Variant of WinRate: the winners are set against all the trades.
MutWinRateOverAllTrades(df) ==
    IF Len(df) > 0 THEN Format2(Len(Winners(df)) * 100, Len(df)) ELSE 0

\* Lines 13-14, 27: the win rate as printed (hundredths of a percent).
WinRate(df) ==
    LET deciding_trades == Len(Winners(df)) + Len(Losers(df))
    IN IF deciding_trades > 0
       THEN Format2(Len(Winners(df)) * 100, deciding_trades)
       ELSE 0

\* Lines 18-19: the columns 'Win' and 'Loss'.
WinColumn(df) ==
    [i \in 1..Len(df) |-> IF df[i].RMultiple > 0 THEN 1 ELSE 0]

LossColumn(df) ==
    [i \in 1..Len(df) |-> IF df[i].RMultiple < 0 THEN 1 ELSE 0]

RECURSIVE MaxStreak(_, _, _)
\* Lines 20-23: the largest running count within a run of equal values of
\* the column, from row i on; cur is the count of the run that ends before i.
MaxStreak(col, i, cur) ==
    IF i > Len(col) THEN 0
    ELSE LET now  == IF col[i] = 1 THEN cur + 1 ELSE 0
             rest == MaxStreak(col, i + 1, now)
         IN IF now > rest THEN now ELSE rest

\* Lines 5-28: the overall table, Metric by Metric; Win Rate and Total R Gain
\* are the printed texts, in hundredths.
calculate_overall_stats(df) ==
    [TotalTrades |-> Len(df),
     Winners |-> Len(Winners(df)),
     Losers |-> Len(Losers(df)),
     BreakEvens |-> Len(BreakEvens(df)),
     WinRate |-> WinRate(df),
     TotalRGain |-> 100 * SumR(df),
     MaxConsecutiveWins |-> MaxStreak(WinColumn(df), 1, 0),
     MaxConsecutiveLosses |-> MaxStreak(LossColumn(df), 1, 0)]

\* Lines 42-52 and 69-79: the row of one group.
GroupRow(key, group) ==
    [Key |-> key, Trades |-> Len(group),
     W |-> Len(Winners(group)), L |-> Len(Losers(group)),
     BE |-> Len(BreakEvens(group)), WinRate |-> WinRate(group),
     RGain |-> 100 * SumR(group)]

RECURSIVE MonthlyFrom(_, _)
\* The loop over resample('ME'), from month m on: empty months are skipped.
MonthlyFrom(df, m) ==
    IF m > 12 THEN << >>
    ELSE LET group == SelectSeq(df, LAMBDA t : MonthOf(t.EntryTime) = m)
         IN (IF Len(group) = 0 THEN << >> ELSE << GroupRow(m, group) >>)
                \o MonthlyFrom(df, m + 1)

\* Lines 30-53.
calculate_monthly_stats(df) == MonthlyFrom(df, 1)

RECURSIVE DailyFrom(_, _)
\* The loop over days_order, from its k-th day on.
DailyFrom(df, k) ==
    IF k > Len(days_order) THEN << >>
    ELSE LET group == SelectSeq(df,
                          LAMBDA t : day_name(t.EntryTime) = days_order[k])
         IN (IF Len(group) = 0 THEN << >>
             ELSE << GroupRow(days_order[k], group) >>)
                \o DailyFrom(df, k + 1)

\* Lines 55-80.
calculate_daily_stats(df) == DailyFrom(df, 1)

\* Variant of get_performance_stats: a table of one trade counts as empty.
MutStatsNeedTwoTrades(df) ==
    IF Len(df) <= 1 THEN << None, None, None >>
    ELSE << Some(calculate_overall_stats(df)),
            Some(calculate_monthly_stats(df)),
            Some(calculate_daily_stats(df)) >>

\* Lines 82-100.
get_performance_stats(df) ==
    IF Len(df) = 0 THEN << None, None, None >>
    ELSE << Some(calculate_overall_stats(df)),
            Some(calculate_monthly_stats(df)),
            Some(calculate_daily_stats(df)) >>

RECURSIVE Tables(_)
\* The trade tables of at most k rows.
Tables(k) ==
    IF k = 0 THEN { << >> }
    ELSE Tables(k - 1)
            \cup { Append(t, row) : t \in { u \in Tables(k - 1) :
                                              Len(u) = k - 1 },
                                    row \in TradeRows }

InitAnalysis ==
    /\ EngineIdle
    /\ trades_df \in Tables(MaxTrades)
    /\ stats = << >>
    /\ candles = << >>
    /\ rows_per_candle = 1
    /\ final_df = << >>
    /\ ScenariosIdle
    /\ UpdaterIdle

\* Lines 18-19 and 61: trades_df['Win'], trades_df['Loss'] and
\* trades_df['DayOfWeek'] are assigned on the frame that was passed in, so
\* the caller's table has the three columns after the call; the empty table
\* returns at line 94, before them.
TableAfterStats(df) ==
    IF Len(df) = 0 THEN df
    ELSE [i \in 1..Len(df) |->
             [EntryTime |-> df[i].EntryTime, RMultiple |-> df[i].RMultiple,
              Win |-> WinColumn(df)[i], Loss |-> LossColumn(df)[i],
              DayOfWeek |-> day_name(df[i].EntryTime)]]

\* The call get_performance_stats(trades_df).
Analyse ==
    /\ stats = << >>
    /\ stats' = get_performance_stats(trades_df)
    /\ trades_df' = TableAfterStats(trades_df)
    /\ UNCHANGED << engine, candles, rows_per_candle, final_df >>

NextAnalysis == Analyse

SpecAnalysis == InitAnalysis /\ [][NextAnalysis]_vars

\* ======================================================================
\* StrategyPR.generate_conditions (src/Strategies/strategy_PR.py)
\* ======================================================================
\* The candles of the strategy timeframe: open, high, low, close, volume,
\* with low <= open, close <= high.
CandleSet ==
    [open : {1, 2}, high : {2, 3}, low : {0, 1}, close : {1, 2},
     volume : {1, 2}]

RECURSIVE CandleSeqs(_)
\* The series of exactly k candles.
CandleSeqs(k) ==
    IF k = 0 THEN { << >> }
    ELSE { Append(cs, c) : cs \in CandleSeqs(k - 1), c \in CandleSet }

\* load_unified_data: the frame has k base-timeframe rows per candle, and the
\* columns of the strategy timeframe are filled down from the candle's first
\* row to the next candle.  candle is the place of the row's candle in the
\* series (its timestamp); no line of the strategy reads it.
UnifiedRows(cs, k) ==
    [p \in 1..(Len(cs) * k) |->
        LET c == ((p - 1) \div k) + 1
        IN [candle |-> c, open |-> cs[c].open, high |-> cs[c].high,
            low |-> cs[c].low, close |-> cs[c].close,
            volume |-> cs[c].volume]]

\* Line 37: df[open_col].ne(df[open_col].shift(1)); the first row differs
\* from the missing value before it.
is_new_candle_start(df, p) ==
    IF p = 1 THEN TRUE ELSE df[p].open /= df[p - 1].open

\* The rows of df that line 38 keeps, by position.
Starts(df) ==
    SelectSeq([p \in 1..Len(df) |-> p],
              LAMBDA p : is_new_candle_start(df, p))

\* Line 38: df[is_new_candle_start].
df_15min(df) == [m \in 1..Len(Starts(df)) |-> df[Starts(df)[m]]]

NaNRow == [candle |-> 0, open |-> NaN, high |-> NaN, low |-> NaN,
           close |-> NaN, volume |-> NaN]

\* .shift(k), read at row m: the row k places before, or missing values.
shift(d, m, k) == IF m - k >= 1 THEN d[m - k] ELSE NaNRow

\* Comparisons of pandas: false when an operand is missing.
ge(a, b) == ~isna(a) /\ ~isna(b) /\ a >= b

le(a, b) == ~isna(a) /\ ~isna(b) /\ a <= b

gt(a, b) == ~isna(a) /\ ~isna(b) /\ a > b

lt(a, b) == ~isna(a) /\ ~isna(b) /\ a < b

\* max(axis=1) / min(axis=1) of two columns: missing values are skipped.
max2(a, b) == IF isna(a) THEN b ELSE IF isna(b) THEN a
              ELSE IF a >= b THEN a ELSE b

min2(a, b) == IF isna(a) THEN b ELSE IF isna(b) THEN a
              ELSE IF a <= b THEN a ELSE b

\* Lines 41-71, 94: the row of conditions_df for row m of df_15min (no
\* session is configured: session_cond is True).
Conditions(d, m) ==
    LET s1 == shift(d, m, 1)
        s2 == shift(d, m, 2)
        prev_body_top    == max2(s2.open, s2.close)
        prev_body_bottom == min2(s2.open, s2.close)
    IN [base_pattern_cond |-> ge(s1.high, s2.high) /\ le(s1.low, s2.low),
        filter_Volume |-> gt(s1.volume, s2.volume),
        filter_Body |-> ~(lt(s1.close, prev_body_top)
                            /\ gt(s1.close, prev_body_bottom)),
        is_bullish |-> gt(s1.close, s1.open),
        is_bearish |-> lt(s1.close, s1.open),
        entry_price |-> d[m].open,
        sl_price_long |-> s1.low,
        sl_price_short |-> s1.high,
        session_cond |-> TRUE]

\* Line 97: reindex(df.index, method='ffill'): row p takes the conditions of
\* the last kept row at or before it (row 1 is always kept).
LastStart(df, p) ==
    CHOOSE m \in 1..Len(Starts(df)) :
        /\ Starts(df)[m] <= p
        /\ \A m2 \in 1..Len(Starts(df)) : Starts(df)[m2] <= p => m2 <= m

\* Lines 28-105 (the boolean columns hold no missing value to fill).
generate_conditions(df) ==
    [p \in 1..Len(df) |-> Conditions(df_15min(df), LastStart(df, p))]

InitPR ==
    /\ EngineIdle
    /\ trades_df = << >>
    /\ stats = << >>
    /\ candles \in UNION { CandleSeqs(k) : k \in 1..MaxCandles }
    /\ rows_per_candle \in {1, 2}
    /\ final_df = << >>
    /\ ScenariosIdle
    /\ UpdaterIdle

\* The call generate_conditions(df) on the unified frame.
GenerateConditions ==
    /\ final_df = << >>
    /\ final_df' = generate_conditions(UnifiedRows(candles, rows_per_candle))
    /\ UNCHANGED << engine, trades_df, stats, candles, rows_per_candle >>

NextPR == GenerateConditions

SpecPR == InitPR /\ [][NextPR]_vars

\* --------------------------------------------- vocabulary of the claims --
\* The open positions, whichever code path holds them.
OpenTrades ==
    IF allow_multiple_trades THEN active_trades
    ELSE IF in_position THEN << position_details >> ELSE << >>

Records == { trades_log[i] : i \in 1..Len(trades_log) }

\* Entry times of the positions that exist or existed: open or in the ledger.
EntryTimes ==
    { OpenTrades[k].entry_time : k \in 1..Len(OpenTrades) }
        \cup { rec.EntryTime : rec \in Records }

\* The bar touches the stop and the take-profit of trade t.
StopTouched(t, bar) ==
    \/ (t.direction = "LONG" /\ bar.low <= t.sl)
    \/ (t.direction = "SHORT" /\ bar.high >= t.sl)

TargetTouched(t, bar) ==
    \/ (t.direction = "LONG" /\ bar.high >= t.tp)
    \/ (t.direction = "SHORT" /\ bar.low <= t.tp)

\* The records the last step appended for trade t.
ClosedNow(t) ==
    { rec \in Records : rec.EntryTime = t.entry_time
                            /\ rec.ExitTime = last.Index }

\* ------------------------------------------------------------------ C1 --
\* C1: whenever the bar of a step touches both the stop-loss (as it stands at
\* the exit check) and the take-profit of a position that was open, the step
\* appends exactly one record for that position and its Exit Reason is
\* 'Stop Loss', in both modes and for both directions.
C1_TieBreakStopLoss ==
    \A k \in 1..Len(checked) :
        (StopTouched(checked[k], last) /\ TargetTouched(checked[k], last))
            => /\ Cardinality(ClosedNow(checked[k])) = 1
               /\ \A rec \in ClosedNow(checked[k]) :
                      rec.ExitReason = "Stop Loss"

\* A SHORT position, not armed, whose bar reaches both its stop and its target.
C1_Witness ==
    \E k \in 1..Len(checked) :
        /\ checked[k].direction = "SHORT"
        /\ ~checked[k].be_triggered
        /\ checked[k].tp < checked[k].sl
        /\ StopTouched(checked[k], last)
        /\ TargetTouched(checked[k], last)
        /\ ClosedNow(checked[k]) /= {}

\* ------------------------------------------------------------------ C2 --
\* C2: every record of the ledger has R-Multiple -1, 0 or risk_reward_ratio;
\* Take Profit records carry risk_reward_ratio, Stop Loss records -1 or 0.
C2_RMultipleBounds ==
    \A rec \in Records :
        /\ rec.RMultiple \in {-1, 0, risk_reward_ratio}
        /\ rec.ExitReason \in {"Stop Loss", "Take Profit"}
        /\ rec.ExitReason = "Take Profit"
               => rec.RMultiple = risk_reward_ratio
        /\ rec.ExitReason = "Stop Loss" => rec.RMultiple \in {-1, 0}

\* A ledger holding a Take Profit at 2R beside a Stop Loss.
C2_Witness ==
    /\ risk_reward_ratio = 2
    /\ \E a \in Records : a.ExitReason = "Take Profit" /\ a.RMultiple = 2
    /\ \E b \in Records : b.ExitReason = "Stop Loss"

\* ------------------------------------------------------------------ C3 --
\* C3: in single-trade mode consecutive records never overlap in time:
\* Entry Time[i+1] >= Exit Time[i].
C3_Exclusivity ==
    ~allow_multiple_trades =>
        \A i \in 1..(Len(trades_log) - 1) :
            trades_log[i + 1].EntryTime >= trades_log[i].ExitTime

C3_Witness ==
    /\ ~allow_multiple_trades
    /\ Len(trades_log) >= 2

\* ------------------------------------------------------------------ C4 --
\* C4: a position whose breakeven has armed, on an earlier step (started) or
\* on this step (checked), and that this step closes by its stop, is recorded
\* with R-Multiple 0, never -1.
C4_BreakevenMonotonicity ==
    \A k \in 1..Len(checked) :
        (started[k].be_triggered \/ checked[k].be_triggered) =>
            \A rec \in ClosedNow(checked[k]) :
                rec.ExitReason = "Stop Loss" =>
                    rec.RMultiple = 0 /\ rec.ExitPrice = rec.EntryPrice

\* A position that armed on an earlier step and is stopped out on this one.
C4_Witness ==
    \E k \in 1..Len(checked) :
        /\ started[k].be_triggered
        /\ \E rec \in ClosedNow(checked[k]) : rec.ExitReason = "Stop Loss"

\* ------------------------------------------------------------------ C5 --
\* C5: in single-trade mode, when the open position exits on a step whose row
\* carries a valid signal, that signal opens a position on the same step (its
\* entry time is the row's Index), and the new position has not been through
\* the breakeven / exit check of that row.
C5_CloseThenOpen ==
    (~allow_multiple_trades /\ n >= 1 /\ Len(checked) = 1
        /\ ClosedNow(checked[1]) /= {} /\ last.kind = "valid")
    => /\ in_position
       /\ position_details.entry_time = n
       /\ ~position_details.be_triggered
       /\ n \in admitted
       /\ \A rec \in Records : rec.EntryTime /= n

\* The ledger holds two consecutive records with Entry Time[2] = Exit Time[1].
C5_Witness ==
    /\ ~allow_multiple_trades
    /\ Len(trades_log) >= 2
    /\ trades_log[2].EntryTime = trades_log[1].ExitTime

\* ------------------------------------------------------------------ C6 --
\* C6: a row with a valid signal opens a position on its step iff
\* allow_multiple_trades is true or no position is left open after the exit
\* processing; in multi-trade mode it does so however many are open.
C6_EntryAdmission ==
    (n >= 1 /\ pc /= "raised" /\ last.kind = "valid") =>
        /\ (\E k \in 1..Len(OpenTrades) : OpenTrades[k].entry_time = n)
               <=> (allow_multiple_trades \/ Len(kept) = 0)
        /\ allow_multiple_trades => Len(active_trades) = Len(kept) + 1

\* Multi-trade mode: a valid signal is admitted while two positions are open.
C6_Witness ==
    /\ allow_multiple_trades
    /\ n >= 1
    /\ last.kind = "valid"
    /\ Len(kept) = 2
    /\ Len(active_trades) = 3

\* ------------------------------------------------------------------ C7 --
\* C7: in single-trade mode at most one position is open at any time (the
\* positions opened so far exceed the positions closed by at most one), and
\* no position is created on a step whose exit processing leaves one open.
C7_SinglePosition ==
    ~allow_multiple_trades =>
        /\ Cardinality(admitted) - Len(trades_log) \in {0, 1}
        /\ in_position <=> Cardinality(admitted) - Len(trades_log) = 1
        /\ (n >= 1 /\ Len(kept) > 0) => n \notin admitted

\* A valid signal arrives while the position stays open.
C7_Witness ==
    /\ ~allow_multiple_trades
    /\ n >= 1
    /\ Len(kept) > 0
    /\ last.kind = "valid"

\* ------------------------------------------------------------------ C8 --
\* C8: in single-trade mode a signal that met an occupied slot never becomes
\* a position: no open position and no record has its Entry Time, on that
\* step or any later one; every position stems from a row that found the
\* slot free.
C8_BlockedSignalDropped ==
    ~allow_multiple_trades =>
        /\ blocked \cap EntryTimes = {}
        /\ EntryTimes \subseteq admitted
        /\ blocked \cap admitted = {}

\* A valid signal was blocked, and a later signal opened the next position.
C8_Witness ==
    /\ ~allow_multiple_trades
    /\ \E i \in blocked : \E j \in admitted : j > i

\* ------------------------------------------------------------------ C9 --
\* C9: a signal row with entry_price = sl_price never creates a position and
\* never yields a record, in both modes, whatever the later bars.
C9_ZeroRiskRejected ==
    \A i \in zero_risk : i \notin EntryTimes /\ i \notin admitted

\* A zero-risk signal on a free slot, and trades recorded on later bars.
C9_Witness ==
    \E i \in zero_risk :
        /\ i \notin blocked
        /\ \E rec \in Records : rec.EntryTime > i

\* ----------------------------------------------------------------- C10 --
\* The row of the last step with its signal set to 0.
Silenced(seen) ==
    [Index |-> seen.Index, signal |-> 0, entry_price |-> NaN,
     sl_price |-> NaN, high |-> seen.high, low |-> seen.low]

\* The ledger as the last step found it.
LogBefore == SelectSeq(trades_log, LAMBDA rec : rec.ExitTime < last.Index)

\* C10: a step whose row carries a signal with a missing price or zero risk
\* raises nothing and leaves the open positions and the ledger exactly as the
\* step of the same row with its signal set to 0 leaves them, and the loop
\* goes on; the states being equal, so are all later steps and the final
\* ledger.
C10_ValidationAbsorbed ==
    (n >= 1 /\ last.kind \in {"missing", "zero_risk"}) =>
        /\ pc = "loop"
        /\ n \notin admitted
        /\ allow_multiple_trades =>
             LET s == StepMulti(started, LogBefore, Silenced(last))
             IN /\ active_trades = s.active_trades
                /\ trades_log = s.trades_log
        /\ ~allow_multiple_trades =>
             LET s == StepSingle(Len(started) = 1,
                                 IF Len(started) = 1 THEN started[1]
                                 ELSE NoTrade,
                                 LogBefore, Silenced(last))
             IN /\ in_position = s.in_position
                /\ in_position => position_details = s.position_details
                /\ trades_log = s.trades_log

\* An invalid signal on a free slot was absorbed and later rows were
\* processed: a position opened after it has been closed.
C10_Witness ==
    /\ pc = "loop"
    /\ last.kind = "missing"
    /\ last.Index \notin blocked
    /\ \E k \in 1..Len(checked) : ClosedNow(checked[k]) /= {}

\* ----------------------------------------------------------------- C11 --
\* C11: when the series lacks an execution-timeframe column the call raises
\* before any row is processed: no row is consumed, no position is opened, no
\* record is produced and no ledger is returned, in both modes.
C11_ConfigErrorFailFast ==
    ~has_exec_cols =>
        /\ pc \in {"start", "raised"}
        /\ n = 0
        /\ active_trades = << >>
        /\ ~in_position
        /\ trades_log = << >>
        /\ admitted = {}
        /\ result = NoResult

\* The call has raised on a series without the columns.
C11_Witness ==
    /\ ~has_exec_cols
    /\ pc = "raised"

IsPrefix(before, after) ==
    /\ Len(before) <= Len(after)
    /\ SubSeq(after, 1, Len(before)) = before

\* Place of the position opened at time t among the positions a step found
\* open (0: none).
OpenedAt(list, t) ==
    IF \E k \in 1..Len(list) : list[k].entry_time = t
    THEN CHOOSE k \in 1..Len(list) : list[k].entry_time = t
    ELSE 0

\* C14: every step leaves the ledger as it was with zero or more records
\* appended at its end; the appended records carry the step's timestamp and
\* stand in the order in which their positions were opened; the returned
\* ledger is the ledger of the last step and its Exit Time is non-decreasing.
C14_AppendOnly ==
    [][ /\ pc' = "loop" =>
            /\ IsPrefix(trades_log, trades_log')
            /\ \A i \in (Len(trades_log) + 1)..Len(trades_log') :
                   /\ trades_log'[i].ExitTime = n'
                   /\ OpenedAt(started', trades_log'[i].EntryTime) > 0
                   /\ \A j \in (i + 1)..Len(trades_log') :
                          OpenedAt(started', trades_log'[i].EntryTime)
                              < OpenedAt(started', trades_log'[j].EntryTime)
        /\ pc' = "done" =>
            /\ result' = trades_log
            /\ \A i \in 1..(Len(result') - 1) :
                   result'[i].ExitTime <= result'[i + 1].ExitTime
      ]_vars

\* Multi-trade mode: two positions opened on different rows closed on the
\* same step, after an earlier record.
C14_Witness ==
    /\ allow_multiple_trades
    /\ \E i \in 1..(Len(trades_log) - 1) :
           /\ trades_log[i].ExitTime = trades_log[i + 1].ExitTime
           /\ trades_log[i].EntryTime < trades_log[i + 1].EntryTime

\* ----------------------------------------------------------------- C15 --
\* C15: on an empty trade table get_performance_stats returns
\* (None, None, None); on every non-empty one its first result, the overall
\* table, is not None.
C15_StatsOfEmptyTable ==
    stats /= << >> =>
        /\ Len(trades_df) = 0 => stats = << None, None, None >>
        /\ Len(trades_df) > 0 => stats[1] /= None

\* The call on the empty table has returned.
C15_Witness ==
    /\ Len(trades_df) = 0
    /\ stats = << None, None, None >>

\* ----------------------------------------------------------------- C16 --
\* The rows of trades_df whose R-Multiple is above, below or equal to zero,
\* among the rows S.
Won(S) == { i \in S : trades_df[i].RMultiple > 0 }

Lost(S) == { i \in S : trades_df[i].RMultiple < 0 }

Even(S) == { i \in S : trades_df[i].RMultiple = 0 }

RECURSIVE RGainOf(_)
\* Sum of the R-Multiple of the rows S.
RGainOf(S) ==
    IF S = {} THEN 0
    ELSE LET i == CHOOSE j \in S : TRUE
         IN trades_df[i].RMultiple + RGainOf(S \ {i})

RECURSIVE TradesIn(_)
\* Sum of the column Trades of a table of groups.
TradesIn(tbl) ==
    IF Len(tbl) = 0 THEN 0 ELSE tbl[1].Trades + TradesIn(Tail(tbl))

\* The printed rate (hundredths) is w / (w + l) * 100 to two decimals, 0 when
\* w + l = 0.
IsWinRate(rate, w, l) ==
    IF w + l = 0 THEN rate = 0
    ELSE 2 * abs((rate * (w + l)) - (100 * 100 * w)) <= w + l

\* Table tbl groups the rows of trades_df by keys (the key of each row):
\* every row falls in exactly one group, and each group counts its rows and
\* classifies them as the overall table does.
GroupsBy(tbl, keys) ==
    LET rows == 1..Len(trades_df)
        of(g) == { i \in rows : keys[i] = tbl[g].Key }
    IN /\ \A i \in rows :
              Cardinality({ g \in 1..Len(tbl) : tbl[g].Key = keys[i] }) = 1
       /\ \A g \in 1..Len(tbl) :
              /\ tbl[g].Trades = Cardinality(of(g))
              /\ tbl[g].Trades > 0
              /\ tbl[g].W = Cardinality(Won(of(g)))
              /\ tbl[g].L = Cardinality(Lost(of(g)))
              /\ tbl[g].BE = Cardinality(Even(of(g)))
              /\ tbl[g].RGain = 100 * RGainOf(of(g))
              /\ IsWinRate(tbl[g].WinRate, tbl[g].W, tbl[g].L)
       /\ TradesIn(tbl) = Len(trades_df)

\* C16: for a non-empty trade table the overall table counts the records,
\* the winners (R > 0), the losers (R < 0) and the break-evens (R = 0), which
\* add up to the total; Total R Gain is the sum of R-Multiple and Win Rate is
\* Winners / (Winners + Losers) * 100 as printed, to two decimals (0 when there
\* is no winner and no loser); the monthly and the day-of-week tables count
\* every record in exactly one group, by its Entry Time, with the same
\* classification, and their Trades add up to Total Trades.
C16_StatsArithmetic ==
    (stats /= << >> /\ Len(trades_df) > 0) =>
        LET rows    == 1..Len(trades_df)
            overall == stats[1][1]
        IN /\ overall.TotalTrades = Len(trades_df)
           /\ overall.Winners = Cardinality(Won(rows))
           /\ overall.Losers = Cardinality(Lost(rows))
           /\ overall.BreakEvens = Cardinality(Even(rows))
           /\ overall.Winners + overall.Losers + overall.BreakEvens
                  = overall.TotalTrades
           /\ overall.TotalRGain = 100 * RGainOf(rows)
           /\ IsWinRate(overall.WinRate, overall.Winners, overall.Losers)
           /\ stats[2] /= None
           /\ GroupsBy(stats[2][1],
                       [i \in rows |-> MonthOf(trades_df[i].EntryTime)])
           /\ stats[3] /= None
           /\ GroupsBy(stats[3][1],
                       [i \in rows |-> day_name(trades_df[i].EntryTime)])

\* One winner, one loser and one break-even spread over two months and two
\* days of the week.
C16_Witness ==
    /\ stats /= << >>
    /\ Len(trades_df) = 3
    /\ stats[1][1].Winners = 1
    /\ stats[1][1].Losers = 1
    /\ stats[1][1].BreakEvens = 1
    /\ Len(stats[2][1]) = 2
    /\ Len(stats[3][1]) = 2

\* ----------------------------------------------------------------- C17 --
\* C17: every row of candle c of the series (c = i + 1) carries
\* entry_price = open[c] and never is_bullish and is_bearish together; from
\* the third candle on it carries base_pattern_cond iff high[c-1] >= high[c-2]
\* and low[c-1] <= low[c-2], filter_Volume iff volume[c-1] > volume[c-2],
\* is_bullish iff close[c-1] > open[c-1], is_bearish iff close[c-1] <
\* open[c-1], sl_price_long = low[c-1] and sl_price_short = high[c-1] (so no
\* data of a later candle); the first two candles never carry
\* base_pattern_cond.
C17_ConditionsOfCandle ==
    final_df /= << >> =>
        \A p \in 1..Len(final_df) :
            LET c   == ((p - 1) \div rows_per_candle) + 1
                row == final_df[p]
            IN /\ row.entry_price = candles[c].open
               /\ ~(row.is_bullish /\ row.is_bearish)
               /\ c <= 2 => ~row.base_pattern_cond
               /\ c >= 3 =>
                    /\ row.base_pattern_cond <=>
                          (candles[c - 1].high >= candles[c - 2].high
                              /\ candles[c - 1].low <= candles[c - 2].low)
                    /\ row.filter_Volume <=>
                          candles[c - 1].volume > candles[c - 2].volume
                    /\ row.is_bullish <=>
                          candles[c - 1].close > candles[c - 1].open
                    /\ row.is_bearish <=>
                          candles[c - 1].close < candles[c - 1].open
                    /\ row.sl_price_long = candles[c - 1].low
                    /\ row.sl_price_short = candles[c - 1].high

\* ----------------------------------------------------------------- C18 --
\* The bar reaches the breakeven trigger of trade t / comes back to its entry.
TriggerTouched(t, bar) ==
    \/ (t.direction = "LONG" /\ bar.high >= t.be_price)
    \/ (t.direction = "SHORT" /\ bar.low <= t.be_price)

EntryTouched(t, bar) ==
    \/ (t.direction = "LONG" /\ bar.low <= t.entry)
    \/ (t.direction = "SHORT" /\ bar.high >= t.entry)

\* The records of the ledger for the position opened at t and closed at x.
RecordsOf(t, x) ==
    { i \in 1..Len(trades_log) :
        trades_log[i].EntryTime = t /\ trades_log[i].ExitTime = x }

\* C18: with use_breakeven, a position that was not armed when the step began
\* and whose bar reaches the breakeven trigger and the entry price arms and is
\* closed on that step: one record, 'Stop Loss', Exit Price = entry price,
\* R-Multiple 0, whatever else the bar reaches; it is no longer open.
C18_BreakevenBeforeExit ==
    use_breakeven =>
        \A k \in 1..Len(checked) :
            (~started[k].be_triggered /\ TriggerTouched(started[k], last)
                /\ EntryTouched(started[k], last))
            => /\ checked[k].be_triggered
               /\ Cardinality(RecordsOf(started[k].entry_time, last.Index)) = 1
               /\ \A i \in RecordsOf(started[k].entry_time, last.Index) :
                      /\ trades_log[i].ExitReason = "Stop Loss"
                      /\ trades_log[i].ExitPrice = started[k].entry
                      /\ trades_log[i].RMultiple = 0
               /\ \A j \in 1..Len(OpenTrades) :
                      OpenTrades[j].entry_time /= started[k].entry_time

\* The arming bar also reaches the original stop and the take-profit.
C18_Witness ==
    /\ use_breakeven
    /\ \E k \in 1..Len(checked) :
           /\ ~started[k].be_triggered
           /\ started[k].sl /= started[k].entry
           /\ TriggerTouched(started[k], last)
           /\ EntryTouched(started[k], last)
           /\ StopTouched(started[k], last)
           /\ TargetTouched(started[k], last)
           /\ RecordsOf(started[k].entry_time, last.Index) /= {}

\* ----------------------------------------------------------------- C19 --
\* Trade a is trade b up to the stop and the armed flag.
SameAdmission(a, b) ==
    /\ a.entry = b.entry
    /\ a.tp = b.tp
    /\ a.be_price = b.be_price
    /\ a.direction = b.direction
    /\ a.entry_time = b.entry_time

\* The stop of trade t is the one its state allows, sg being its signal.
StopAsAllowed(t, sg) ==
    IF t.be_triggered THEN use_breakeven /\ t.sl = t.entry
    ELSE t.sl = sg.sl_price

\* C19: the stop of every open position is its signal's sl_price while it is
\* not armed and its entry price once armed; a position is admitted not armed,
\* an armed one stays armed, arming needs use_breakeven, and no step changes
\* entry price, take-profit, breakeven price, direction or entry time.
C19_StopMutation ==
    /\ \A j \in 1..Len(OpenTrades) :
           \E sg \in signals :
               /\ sg.Index = OpenTrades[j].entry_time
               /\ StopAsAllowed(OpenTrades[j], sg)
               /\ sg.Index = n => ~OpenTrades[j].be_triggered
    /\ \A k \in 1..Len(checked) :
           /\ SameAdmission(started[k], checked[k])
           /\ started[k].be_triggered => checked[k] = started[k]
           /\ checked[k].be_triggered =>
                  use_breakeven /\ checked[k].sl = checked[k].entry
           /\ ~checked[k].be_triggered => checked[k] = started[k]
    /\ \A k \in 1..Len(kept) :
           \E j \in 1..Len(checked) : kept[k] = checked[j]
    /\ \A k \in 1..Len(kept) : OpenTrades[k] = kept[k]

\* A position armed on an earlier step is still open, beside one not armed.
C19_Witness ==
    /\ \E k \in 1..Len(kept) : \E j \in 1..Len(started) :
           /\ kept[k].entry_time = started[j].entry_time
           /\ kept[k].be_triggered
           /\ started[j].be_triggered
    /\ \E j \in 1..Len(OpenTrades) : ~OpenTrades[j].be_triggered

\* ----------------------------------------------------------------- C20 --
\* The row of the last step, as the exit processing read it.
LastBar ==
    [Index |-> last.Index, signal |-> 0, entry_price |-> NaN,
     sl_price |-> NaN, high |-> last.high, low |-> last.low]

\* C20: multi-trade mode: every position open when the step began got its
\* breakeven and exit check once, in insertion order; the positions left open
\* are those whose check found no exit, in the same order; every other one
\* has exactly one record; and remove() never fails.
C20_RemovalSafe ==
    (allow_multiple_trades /\ n >= 1) =>
        /\ pc /= "raised"
        /\ Len(checked) = Len(started)
        /\ \A k \in 1..Len(checked) :
               /\ checked[k] = BreakevenMulti(started[k], LastBar)
               /\ Cardinality({ i \in 1..Len(trades_log) :
                       trades_log[i].EntryTime = checked[k].entry_time })
                   = IF ExitMulti(checked[k], LastBar).exit_reason = "None"
                     THEN 0 ELSE 1
        /\ kept = SelectSeq(checked,
                      LAMBDA t : ExitMulti(t, LastBar).exit_reason = "None")
        /\ SubSeq(active_trades, 1, Len(kept)) = kept
        /\ Len(active_trades) - Len(kept) \in {0, 1}

\* Of two open positions the first is removed and the second stays.
C20_Witness ==
    /\ allow_multiple_trades
    /\ Len(started) = 2
    /\ Len(kept) = 1
    /\ kept[1].entry_time = started[2].entry_time

\* The remembered signal row that opened trade t.
SignalOf(t) == CHOOSE sg \in signals : sg.Index = t.entry_time

\* The levels run_r_backtest derives from signal row sg, as the claim states
\* them: risk = |entry - stop|, the target and the breakeven price on the
\* profit side of the entry.
DerivedFrom(t, sg) ==
    LET risk == abs(sg.entry_price - sg.sl_price)
    IN /\ risk > 0
       /\ t.entry = sg.entry_price
       /\ t.direction = (IF sg.signal = 1 THEN "LONG" ELSE "SHORT")
       /\ t.direction = "LONG" =>
              /\ t.tp = sg.entry_price + risk * risk_reward_ratio
              /\ t.be_price = sg.entry_price + risk * breakeven_trigger_r
       /\ t.direction = "SHORT" =>
              /\ t.tp = sg.entry_price - risk * risk_reward_ratio
              /\ t.be_price = sg.entry_price - risk * breakeven_trigger_r

\* C21: every open position carries the levels derived from its signal row:
\* risk = |entry_price - sl_price| > 0, target = entry + risk * rr and
\* breakeven price = entry + risk * trigger for a LONG, both subtracted for a
\* SHORT, whichever side the stop lies on; on the step that admitted it the
\* stop is the signal's sl_price and it is not armed.
C21_PositionDerivation ==
    \A j \in 1..Len(OpenTrades) :
        /\ \E sg \in signals : sg.Index = OpenTrades[j].entry_time
        /\ DerivedFrom(OpenTrades[j], SignalOf(OpenTrades[j]))
        /\ OpenTrades[j].entry_time = last.Index =>
               /\ OpenTrades[j].sl = SignalOf(OpenTrades[j]).sl_price
               /\ ~OpenTrades[j].be_triggered

\* A LONG was admitted with its stop above the entry: its target is above the
\* entry as well.
C21_Witness ==
    \E j \in 1..Len(OpenTrades) :
        /\ OpenTrades[j].direction = "LONG"
        /\ OpenTrades[j].entry_time = last.Index
        /\ OpenTrades[j].sl > OpenTrades[j].entry
        /\ OpenTrades[j].tp > OpenTrades[j].entry

\* The bar of the last step touches the stop or the take-profit of trade t.
Touched(t) == StopTouched(t, last) \/ TargetTouched(t, last)

\* C22: a position is closed on the first row after its entry row whose bar
\* touches its stop (as breakeven has moved it up to and including that row)
\* or its take-profit: on every step each position that was open is either
\* touched, recorded once with this row as Exit Time and no longer open, or
\* not touched, not recorded and still open; the position a row opens is open
\* after that row whatever the row's bar; every Exit Time is later than its
\* Entry Time.
C22_FirstTouchExit ==
    /\ \A k \in 1..Len(checked) :
           /\ checked[k].entry_time < last.Index
           /\ Touched(checked[k]) =>
                  /\ Cardinality(RecordsOf(checked[k].entry_time,
                                           last.Index)) = 1
                  /\ \A j \in 1..Len(OpenTrades) :
                         OpenTrades[j].entry_time /= checked[k].entry_time
           /\ ~Touched(checked[k]) =>
                  /\ \A rec \in Records :
                         rec.EntryTime /= checked[k].entry_time
                  /\ \E j \in 1..Len(OpenTrades) :
                         OpenTrades[j] = checked[k]
    /\ \A rec \in Records :
           /\ rec.ExitTime > rec.EntryTime
           /\ rec.ExitTime = last.Index =>
                  \E k \in 1..Len(checked) :
                      /\ checked[k].entry_time = rec.EntryTime
                      /\ Touched(checked[k])
    /\ last.kind = "valid" /\ last.Index \in admitted =>
           \E j \in 1..Len(OpenTrades) :
               /\ OpenTrades[j].entry_time = last.Index
               /\ ~OpenTrades[j].be_triggered

\* The bar of a row closes a position and reaches the stop, the trigger and
\* the take-profit of the position the same row opens, which stays open.
C22_Witness ==
    /\ \E k \in 1..Len(checked) :
           /\ Touched(checked[k])
           /\ RecordsOf(checked[k].entry_time, last.Index) /= {}
    /\ \E j \in 1..Len(OpenTrades) :
           /\ OpenTrades[j].entry_time = last.Index
           /\ StopTouched(OpenTrades[j], last)
           /\ TargetTouched(OpenTrades[j], last)
           /\ TriggerTouched(OpenTrades[j], last)
           /\ use_breakeven

\* Lines 22-52 as the call itself runs them: the loop of ProcessRowMulti
\* without the record the history variables keep of it.
ProcessRowMultiPlain ==
    /\ pc = "loop"
    /\ allow_multiple_trades
    /\ n < MaxRows
    /\ \E q \in Quotes, b \in Bars :
        \E s \in {StepMulti(active_trades, trades_log, Row(n + 1, q, b))} :
           /\ active_trades' = s.active_trades
           /\ trades_log' = s.trades_log
           /\ pc' = IF s.error THEN "raised" ELSE "loop"
    /\ n' = n + 1
    /\ UNCHANGED << config, result, in_position, position_details, history,
                    others >>

\* Lines 57-88 as the call itself runs them: the loop of ProcessRowSingle
\* without the record the history variables keep of it.
ProcessRowSinglePlain ==
    /\ pc = "loop"
    /\ ~allow_multiple_trades
    /\ n < MaxRows
    /\ \E q \in Quotes, b \in Bars :
        \E s \in {StepSingle(in_position, position_details, trades_log,
                             Row(n + 1, q, b))} :
           /\ in_position' = s.in_position
           /\ position_details' = s.position_details
           /\ trades_log' = s.trades_log
    /\ pc' = "loop"
    /\ n' = n + 1
    /\ UNCHANGED << config, result, active_trades, history, others >>

NextFair ==
    \/ RaiseConfigError
    \/ Begin
    \/ ProcessRowMultiPlain
    \/ ProcessRowSinglePlain
    \/ Return

\* A call runs to its end: the column check is carried out (it raises or
\* lets the loop begin) and, the frame being finite, the loop is left and
\* the return statement reached.  No fairness is asked of the rows: a series
\* can end after any row.
SpecFair ==
    /\ Init
    /\ [][NextFair]_vars
    /\ WF_vars(RaiseConfigError)
    /\ WF_vars(Begin)
    /\ WF_vars(Return)

\* The call has ended: returned the ledger or raised.
Ended == pc \in {"done", "raised"}

\* One step of either loop takes the next row: the rows are consumed one at a
\* time, in order of their index.
TakesNextRow ==
    (pc = "loop" /\ pc' /= "done") =>
        /\ n' = n + 1
        /\ pc' = "loop"

\* C23: every call ends, and in one of two ways only: each row is processed
\* once, in order, and the ledger is returned, or the configuration error is
\* raised before the first row; nothing is raised once a row was processed.
C23_Termination ==
    /\ [](pc = "raised" => ~has_exec_cols /\ n = 0)
    /\ [](pc \in {"loop", "done"} => has_exec_cols)
    /\ [][TakesNextRow]_vars
    /\ [][pc = "loop" /\ pc' = "done" => result' = trades_log /\ n' = n]_vars
    /\ <>Ended

\* A multi-position run has removed a trade from the list and returned after
\* its last row.
C23_Witness ==
    /\ pc = "done"
    /\ allow_multiple_trades
    /\ n = MaxRows
    /\ Len(result) >= 2

\* ======================================================================
\* The two modes side by side: one series handed to run_r_backtest twice,
\* with allow_multiple_trades False (the engine variables) and True (twin).
\* The history variables are not kept.
\* ======================================================================
CollaboratorsIdle ==
    /\ trades_df = << >>
    /\ stats = << >>
    /\ candles = << >>
    /\ rows_per_candle = 1
    /\ final_df = << >>

HistoryIdle ==
    /\ last = NoRow
    /\ zero_risk = {}
    /\ started = << >>
    /\ checked = << >>
    /\ kept = << >>
    /\ admitted = {}
    /\ blocked = {}
    /\ signals = {}

\* Both calls have passed the column check and stand before the first row.
InitModes ==
    /\ pc = "loop"
    /\ result = NoResult
    /\ has_exec_cols = TRUE
    /\ risk_reward_ratio \in RewardRatios
    /\ use_breakeven \in BOOLEAN
    /\ breakeven_trigger_r \in TriggerRs
    /\ allow_multiple_trades = FALSE
    /\ n = 0
    /\ active_trades = << >>
    /\ in_position = FALSE
    /\ position_details = NoTrade
    /\ trades_log = << >>
    /\ HistoryIdle
    /\ CollaboratorsIdle
    /\ ScenariosIdle
    /\ UpdaterIdle
    /\ twin = NoTwin
    /\ solo = NoSolo

\* Lines 22-52 and 57-88: the next row goes through both loops.  overlap
\* tells that the row brought a valid signal while a position was still open
\* after the exit processing; the series is followed no further then.
ProcessRowBoth ==
    /\ pc = "loop"
    /\ n < MaxRows
    /\ ~twin.overlap
    /\ \E q \in Quotes, b \in Bars :
        \E r \in {Row(n + 1, q, b)} :
        \E s \in {StepSingle(in_position, position_details, trades_log, r)} :
        \E m \in {StepMulti(twin.active_trades, twin.trades_log, r)} :
           /\ in_position' = s.in_position
           /\ position_details' = s.position_details
           /\ trades_log' = s.trades_log
           /\ twin' = [active_trades |-> m.active_trades,
                       trades_log |-> m.trades_log,
                       result |-> NoResult,
                       overlap |-> /\ SignalKind(r) = "valid"
                                   /\ Len(s.kept) + Len(m.kept) > 0]
           /\ pc' = IF m.error THEN "raised" ELSE "loop"
    /\ n' = n + 1
    /\ UNCHANGED << config, result, active_trades, history, trades_df, stats,
                    candles, rows_per_candle, final_df, solo, scenarios,
                    updater >>

\* Lines 90-91, in both calls.
ReturnBoth ==
    /\ pc = "loop"
    /\ pc' = "done"
    /\ result' = trades_log
    /\ twin' = [active_trades |-> << >>, trades_log |-> << >>,
                result |-> twin.trades_log, overlap |-> twin.overlap]
    /\ in_position' = FALSE
    /\ position_details' = NoTrade
    /\ trades_log' = << >>
    /\ UNCHANGED << config, n, active_trades, history, trades_df, stats,
                    candles, rows_per_candle, final_df, solo, scenarios,
                    updater >>

NextModes ==
    \/ ProcessRowBoth
    \/ ReturnBoth

SpecModes == InitModes /\ [][NextModes]_vars

\* C24: on a series in which no valid signal arrives while a position is
\* still open after the exit processing of its row, the single-position and
\* the multi-position run hold the same open position and the same ledger
\* after every row, and return the same ledger.
C24_ModesAgree ==
    ~twin.overlap =>
        /\ pc /= "raised"
        /\ twin.trades_log = trades_log
        /\ twin.active_trades = OpenTrades
        /\ pc = "done" => twin.result = result

\* Both runs have returned two records, one of them closed at breakeven, on
\* a series without an overlapping signal.
C24_Witness ==
    /\ pc = "done"
    /\ ~twin.overlap
    /\ n = MaxRows
    /\ Len(result) = 2
    /\ twin.result = result
    /\ \E i \in 1..Len(result) : result[i].RMultiple = 0

\* ======================================================================
\* A multi-position run (the engine variables) and, beside it, the run on
\* the same rows in which every signal is 0 but the one of a position picked
\* when it is admitted (solo).  The history variables are not kept.
\* ======================================================================
InitSolo ==
    /\ pc = "loop"
    /\ result = NoResult
    /\ has_exec_cols = TRUE
    /\ risk_reward_ratio \in RewardRatios
    /\ use_breakeven \in BOOLEAN
    /\ breakeven_trigger_r \in TriggerRs
    /\ allow_multiple_trades = TRUE
    /\ n = 0
    /\ active_trades = << >>
    /\ in_position = FALSE
    /\ position_details = NoTrade
    /\ trades_log = << >>
    /\ HistoryIdle
    /\ CollaboratorsIdle
    /\ ScenariosIdle
    /\ UpdaterIdle
    /\ twin = NoTwin
    /\ solo = NoSolo

\* The row r with its signal set to 0.
SignalOff(r) == [r EXCEPT !.signal = 0]

\* Lines 22-52, in both runs.  pick tells that the position this row opens
\* is the one to follow; one position is followed per series.
ProcessRowSolo ==
    /\ pc = "loop"
    /\ n < MaxRows
    /\ \E q \in Quotes, b \in Bars :
        \E r \in {Row(n + 1, q, b)} :
        \E pick \in IF solo.entry_time = 0 /\ AdmitsMulti(r)
                    THEN BOOLEAN ELSE {FALSE} :
        \E s \in {StepMulti(active_trades, trades_log, r)} :
        \E o \in {StepMulti(solo.active_trades, solo.trades_log,
                            IF pick THEN r ELSE SignalOff(r))} :
           /\ active_trades' = s.active_trades
           /\ trades_log' = s.trades_log
           /\ solo' = [entry_time |-> IF pick THEN r.Index
                                      ELSE solo.entry_time,
                       active_trades |-> o.active_trades,
                       trades_log |-> o.trades_log,
                       result |-> NoResult]
           /\ pc' = IF s.error \/ o.error THEN "raised" ELSE "loop"
    /\ n' = n + 1
    /\ UNCHANGED << config, result, in_position, position_details, history,
                    trades_df, stats, candles, rows_per_candle, final_df,
                    twin, scenarios, updater >>

\* Lines 90-91, in both runs.
ReturnSolo ==
    /\ pc = "loop"
    /\ pc' = "done"
    /\ result' = trades_log
    /\ solo' = [entry_time |-> solo.entry_time, active_trades |-> << >>,
                trades_log |-> << >>, result |-> solo.trades_log]
    /\ active_trades' = << >>
    /\ trades_log' = << >>
    /\ UNCHANGED << config, n, in_position, position_details, history,
                    trades_df, stats, candles, rows_per_candle, final_df,
                    twin, scenarios, updater >>

NextSolo ==
    \/ ProcessRowSolo
    \/ ReturnSolo

SpecSolo == InitSolo /\ [][NextSolo]_vars

\* What the list of trades and the ledger hold of the position entered at t.
TradesOf(list, t) == SelectSeq(list, LAMBDA x : x.entry_time = t)

LedgerOf(log, t) == SelectSeq(log, LAMBDA rec : rec.EntryTime = t)

\* C25: multi-trade mode: what happens to a position (its levels and arming
\* while open, its record once closed, or its never closing) is what happens
\* to it in the run on the same bars in which every other signal is 0,
\* whatever else is open beside it.
C25_PositionsIndependent ==
    solo.entry_time /= 0 =>
        /\ pc /= "raised"
        /\ TradesOf(active_trades, solo.entry_time) = solo.active_trades
        /\ LedgerOf(trades_log, solo.entry_time) = solo.trades_log
        /\ pc = "loop" =>
               Len(solo.active_trades) + Len(solo.trades_log) = 1
        /\ pc = "done" =>
               /\ LedgerOf(result, solo.entry_time) = solo.result
               /\ Len(solo.result) <= 1

\* The position followed was closed at breakeven on the row that closed, at
\* the same stop level, a second position opened before it; a third is open.
C25_Witness ==
    /\ pc = "loop"
    /\ Len(solo.trades_log) = 1
    /\ Len(active_trades) >= 1
    /\ \E i, j \in 1..Len(trades_log) :
           /\ i < j
           /\ trades_log[j] = solo.trades_log[1]
           /\ trades_log[j].RMultiple = 0
           /\ trades_log[i].ExitTime = trades_log[j].ExitTime
           /\ trades_log[i].ExitPrice = trades_log[j].ExitPrice

\* The take-profit of the position signal row sg opens.
TargetOf(sg) ==
    IF sg.signal = 1
    THEN sg.entry_price + abs(sg.entry_price - sg.sl_price) * risk_reward_ratio
    ELSE sg.entry_price - abs(sg.entry_price - sg.sl_price) * risk_reward_ratio

\* The records the last step appended.
ClosedRecords == { rec \in Records : rec.ExitTime = last.Index }

\* C26: a 'Stop Loss' record has R-Multiple 0 exactly when its Exit Price is
\* its Entry Price (the stop was at breakeven) and -1 exactly when its Exit
\* Price is the sl_price of its signal (not armed); a 'Take Profit' record
\* has the position's take-profit for Exit Price; without use_breakeven no
\* record has R-Multiple 0.
C26_ExitPriceAndR ==
    /\ \A rec \in Records :
           /\ rec.ExitReason \in {"Stop Loss", "Take Profit"}
           /\ rec.ExitReason = "Stop Loss" =>
                  /\ rec.RMultiple \in {0, -1}
                  /\ rec.RMultiple = 0 <=> rec.ExitPrice = rec.EntryPrice
           /\ ~use_breakeven => rec.RMultiple /= 0
    /\ \A rec \in ClosedRecords :
           \E sg \in signals :
               /\ sg.Index = rec.EntryTime
               /\ rec.ExitReason = "Stop Loss" =>
                      (rec.RMultiple = -1 <=> rec.ExitPrice = sg.sl_price)
               /\ rec.ExitReason = "Take Profit" =>
                      rec.ExitPrice = TargetOf(sg)
               /\ \A k \in 1..Len(checked) :
                      checked[k].entry_time = rec.EntryTime =>
                          /\ rec.RMultiple = 0 =>
                                 checked[k].be_triggered
                          /\ rec.RMultiple = -1 =>
                                 ~checked[k].be_triggered

\* One row closes a position at breakeven and another at its original stop.
C26_Witness ==
    /\ \E rec \in ClosedRecords :
           rec.ExitReason = "Stop Loss" /\ rec.RMultiple = 0
    /\ \E rec \in ClosedRecords :
           rec.ExitReason = "Stop Loss" /\ rec.RMultiple = -1

\* How many open positions and how many records the signal admitted on row t
\* has.
OpenOf(t) ==
    Cardinality({ j \in 1..Len(OpenTrades) : OpenTrades[j].entry_time = t })

RecordedOf(t) ==
    Cardinality({ i \in 1..Len(trades_log) : trades_log[i].EntryTime = t })

\* C27: the records are one-to-one with the closed positions: every record
\* carries the row, the entry price and the direction (+1 LONG, -1 SHORT) of
\* an admitted signal; every admitted signal is either still open, without a
\* record, or closed, with one record (so Entry Times are pairwise distinct
\* and a position left open has no record).
C27_RecordsMatchPositions ==
    /\ \A rec \in Records :
           /\ rec.EntryTime \in admitted
           /\ rec.Direction \in {"LONG", "SHORT"}
    /\ \A t \in admitted : OpenOf(t) + RecordedOf(t) = 1
    /\ \A j \in 1..Len(OpenTrades) : OpenTrades[j].entry_time \in admitted
    /\ \A rec \in ClosedRecords :
           \E sg \in signals :
               /\ sg.Index = rec.EntryTime
               /\ rec.EntryPrice = sg.entry_price
               /\ rec.Direction = (IF sg.signal = 1 THEN "LONG" ELSE "SHORT")
               /\ sg.signal \in {1, -1}

\* Three signals were admitted: a LONG and a SHORT are in the ledger, closed
\* by the last row, and the third is open.
C27_Witness ==
    /\ Cardinality(admitted) = 3
    /\ Len(OpenTrades) = 1
    /\ \E a, b \in ClosedRecords :
           a.Direction = "LONG" /\ b.Direction = "SHORT"

\* C28: get_performance_stats leaves the trade table it is given untouched:
\* the same records, exactly the same columns.
C28_TableUntouched == [][trades_df' = trades_df]_vars

\* ======================================================================
\* The filter-combination loop of _run_backtest_scenarios
\* (src/Core/main.py, lines 91-126).  The columns of conditions_df are
\* boolean Series combined element by element, so one row of them is
\* followed.  final_mask is the Series conditions_df['base_pattern_cond']
\* itself; `final_mask &= x` updates that Series in place (pandas
\* NDFrame._inplace_method).  Without Copy-on-Write the Series shares its
\* values with the frame, so the column of conditions_df is overwritten;
\* with Copy-on-Write the frame keeps its values.  The code pins no pandas
\* version: both are outcomes a build can produce.
\* ======================================================================
\* StrategyPR.AVAILABLE_FILTERS.
AVAILABLE_FILTERS == << "Volume", "Body" >>

\* What the user can tick: any of the available filters, in their order.
Selections == { << >>, << "Volume" >>, << "Body" >>, << "Volume", "Body" >> }

\* Line 91: chain(combinations(selected_filters, r) for r in 0..len).
filter_combinations(sel) ==
    IF Len(sel) = 0 THEN << << >> >>
    ELSE IF Len(sel) = 1 THEN << << >>, << sel[1] >> >>
    ELSE << << >>, << sel[1] >>, << sel[2] >>, << sel[1], sel[2] >> >>

\* conditions_df[f'filter_{filt}'].
FilterColumn(cond, filt) ==
    IF filt = "Volume" THEN cond.filter_Volume ELSE cond.filter_Body

\* Lines 97-110: final_mask of one combination, read from conditions_df as
\* it stands.
FinalMask(cond, filt_combo, new_candle) ==
    /\ cond.base_pattern_cond
    /\ cond.has_session_cond => cond.session_cond
    /\ \A k \in 1..Len(filt_combo) : FilterColumn(cond, filt_combo[k])
    /\ new_candle

\* The frames generate_conditions can return, at one row.
ConditionFrames ==
    { c \in [base_pattern_cond : BOOLEAN, has_session_cond : BOOLEAN,
             session_cond : BOOLEAN, filter_Volume : BOOLEAN,
             filter_Body : BOOLEAN] :
        ~c.has_session_cond => c.session_cond }

InitScenarios ==
    /\ EngineIdle
    /\ CollaboratorsIdle
    /\ UpdaterIdle
    /\ copy_on_write \in BOOLEAN
    /\ selected_filters \in Selections
    /\ conditions_df \in ConditionFrames
    /\ given_df = conditions_df
    /\ is_new_signal_candle \in BOOLEAN
    /\ combos_done = 0
    /\ final_masks = << >>

\* Lines 95-126: the body of the loop for the next combination.  The signal
\* columns and the backtests that follow are functions of final_mask.
RunCombination ==
    /\ combos_done < Len(filter_combinations(selected_filters))
    /\ \E mask \in {FinalMask(conditions_df,
                       filter_combinations(selected_filters)[combos_done + 1],
                       is_new_signal_candle)} :
           /\ final_masks' = Append(final_masks, mask)
           /\ conditions_df' =
                  IF copy_on_write THEN conditions_df
                  ELSE [conditions_df EXCEPT !.base_pattern_cond = mask]
    /\ combos_done' = combos_done + 1
    /\ UNCHANGED << engine_proper, trades_df, stats, candles, rows_per_candle,
                    final_df, twin, solo, updater, copy_on_write,
                    selected_filters, given_df, is_new_signal_candle >>

NextScenarios == RunCombination

SpecScenarios == InitScenarios /\ [][NextScenarios]_vars

\* C29: the mask of every combination is the strategy's base_pattern_cond
\* AND session_cond AND exactly the combination's filters AND the
\* new-signal-candle condition, and conditions_df is as the strategy
\* returned it after every combination.
C29_CombinationsIsolated ==
    /\ conditions_df = given_df
    /\ \A k \in 1..Len(final_masks) :
           final_masks[k] =
               FinalMask(given_df, filter_combinations(selected_filters)[k],
                         is_new_signal_candle)

\* ======================================================================
\* The stages of run_full_update (src/Core/updater.py) that walk
\* asset_folders.  A folder is named by its rank in the sorted list
\* get_raw_asset_folders returns.  `for folder_path in asset_folders` holds
\* a position into the list: it yields asset_folders[it] and moves on, and
\* stops when the position is past the end of the list as it is then.
\* ======================================================================
InitUpdater ==
    /\ EngineIdle
    /\ CollaboratorsIdle
    /\ ScenariosIdle
    /\ UpdaterIdle

\* Lines 43-51: the raw folders are discovered; none ends the update.
Discover ==
    /\ stage = "discover"
    /\ \E k \in 0..MaxAssets :
           /\ discovered' = [i \in 1..k |-> i]
           /\ asset_folders' = [i \in 1..k |-> i]
           /\ stage' = IF k = 0 THEN "done" ELSE "download"
    /\ it' = 0
    /\ UNCHANGED << engine_proper, trades_df, stats, candles, rows_per_candle,
                    final_df, twin, solo, scenarios, downloads, healings,
                    healed_files_to_process, resamplings >>

\* Lines 55-67: one iteration of the download loop.  run_download succeeds
\* or raises; on a failure the folder is removed from the list the loop is
\* iterating.
Download ==
    /\ stage = "download"
    /\ it < Len(asset_folders)
    /\ \E ok \in BOOLEAN :
        \E folder_path \in {asset_folders[it + 1]} :
           /\ downloads' = Append(downloads,
                                  [folder |-> folder_path, ok |-> ok])
           /\ asset_folders' =
                  IF ok THEN asset_folders
                  ELSE DropAt(asset_folders,
                              FirstEqual(asset_folders, folder_path))
    /\ it' = it + 1
    /\ UNCHANGED << engine_proper, trades_df, stats, candles, rows_per_candle,
                    final_df, twin, solo, scenarios, stage, discovered,
                    healings, healed_files_to_process, resamplings >>

\* Lines 55, 69-72: the download loop is exhausted; the healing loop starts.
BeginHealing ==
    /\ stage = "download"
    /\ it >= Len(asset_folders)
    /\ stage' = "heal"
    /\ it' = 0
    /\ UNCHANGED << engine_proper, trades_df, stats, candles, rows_per_candle,
                    final_df, twin, solo, scenarios, discovered,
                    asset_folders, downloads, healings,
                    healed_files_to_process, resamplings >>

\* Lines 72-83: one iteration of the healing loop; run_healing succeeds, or
\* fails or raises.
Heal ==
    /\ stage = "heal"
    /\ it < Len(asset_folders)
    /\ \E success \in BOOLEAN :
           /\ healings' = Append(healings, asset_folders[it + 1])
           /\ healed_files_to_process' =
                  IF success
                  THEN Append(healed_files_to_process, asset_folders[it + 1])
                  ELSE healed_files_to_process
    /\ it' = it + 1
    /\ UNCHANGED << engine_proper, trades_df, stats, candles, rows_per_candle,
                    final_df, twin, solo, scenarios, stage, discovered,
                    asset_folders, downloads, resamplings >>

\* Lines 85-91: nothing healed ends the update; else resampling starts.
BeginResampling ==
    /\ stage = "heal"
    /\ it >= Len(asset_folders)
    /\ stage' = IF healed_files_to_process = << >> THEN "done"
                ELSE "resample"
    /\ it' = 0
    /\ UNCHANGED << engine_proper, trades_df, stats, candles, rows_per_candle,
                    final_df, twin, solo, scenarios, discovered,
                    asset_folders, downloads, healings,
                    healed_files_to_process, resamplings >>

\* Lines 91-101: one iteration of the resampling loop.
Resample ==
    /\ stage = "resample"
    /\ it < Len(healed_files_to_process)
    /\ resamplings' = Append(resamplings, healed_files_to_process[it + 1])
    /\ it' = it + 1
    /\ UNCHANGED << engine_proper, trades_df, stats, candles, rows_per_candle,
                    final_df, twin, solo, scenarios, stage, discovered,
                    asset_folders, downloads, healings,
                    healed_files_to_process >>

\* Lines 103 on: the files are resampled; cleanup ends the update.
Finish ==
    /\ stage = "resample"
    /\ it >= Len(healed_files_to_process)
    /\ stage' = "done"
    /\ it' = 0
    /\ UNCHANGED << engine_proper, trades_df, stats, candles, rows_per_candle,
                    final_df, twin, solo, scenarios, discovered,
                    asset_folders, downloads, healings,
                    healed_files_to_process, resamplings >>

NextUpdater ==
    \/ Discover
    \/ Download
    \/ BeginHealing
    \/ Heal
    \/ BeginResampling
    \/ Resample
    \/ Finish

SpecUpdater == InitUpdater /\ [][NextUpdater]_vars

\* The download attempts made for folder f, and the folders whose download
\* succeeded or failed.
AttemptsOf(f) ==
    Cardinality({ i \in 1..Len(downloads) : downloads[i].folder = f })

Downloaded == { downloads[i].folder : i \in { j \in 1..Len(downloads) :
                                                  downloads[j].ok } }

FailedDownloads == { downloads[i].folder : i \in { j \in 1..Len(downloads) :
                                                       ~downloads[j].ok } }

ElementsOf(list) == { list[i] : i \in 1..Len(list) }

\* C30: once the download stage is over every discovered folder has had
\* exactly one download attempt, also after an earlier failure; a folder
\* whose download failed is neither healed nor resampled, and every folder
\* handed to run_healing was downloaded successfully in this run.
C30_DownloadStage ==
    /\ \A f \in ElementsOf(discovered) : AttemptsOf(f) <= 1
    /\ stage \in {"heal", "resample", "done"} =>
           \A f \in ElementsOf(discovered) : AttemptsOf(f) = 1
    /\ \A f \in FailedDownloads :
           f \notin ElementsOf(healings) /\ f \notin ElementsOf(resamplings)
    /\ \A f \in ElementsOf(healings) : f \in Downloaded

====
